---- MODULE Spec2Model ----
(***************************************************************************)
(* aperoll: the star plot (StarField scene + StarView view), the attitude  *)
(* widgets and their wiring in TelemetryView, as a state machine.          *)
(*                                                                         *)
(* Every action is one event handler run to completion on the single UI    *)
(* thread, with the direct signal/slot calls it triggers folded in.  The   *)
(* handlers are written as operators from a program state (a record, see   *)
(* Pack) to a program state, so that nested calls (a slot called by an     *)
(* emit) read the state left by the caller, as in the code.                *)
(*                                                                         *)
(* Angles on the sky are integers in units of 1/PosPerDeg degree; the sky  *)
(* is the strip dec = 0 and the pointer moves on a horizontal track above  *)
(* the viewport centre, so that a drag changes ra (pan) or roll (rotate).  *)
(* All angles are small: products of rotations are taken to first order.   *)
(***************************************************************************)
EXTENDS Integers, Sequences, FiniteSets, TLC

\* ------------------------------------------------------------------ bounds
PosPerDeg == 2          \* sky positions per degree
CellWidth == 2          \* width of a healpix cell, in sky positions
NCells == 6             \* cells of the modelled strip of sky
MaxRoll == 1            \* rolls 0..MaxRoll
MaxPos == 1             \* pointer positions 0..MaxPos (360/PosPerDeg*2 scene px apart)
MaxWheel == 2           \* wheel events handled
ViewW == 1501           \* viewport width, pixels
ViewH == 1000           \* viewport height, pixels
EmptyCell == 2          \* a cell of the catalog file that holds no star

None == "None"
NoStart == -1         \* StarView._start = None
Epoch0 == "2024:100"
Epoch1 == "2025:100"
Epochs == {Epoch0, Epoch1}
Cells == 0..(NCells - 1)
MaxRa == NCells * CellWidth - 1

\* ------------------------------------------------------------- Quaternion
\* A Quat by its equatorial form; NoneAtt stands for Python's None.
NoneAtt == [ra |-> -1, roll |-> -1]
\* a value that Quat() does not accept
BadAtt == [ra |-> -2, roll |-> -2]
Quats == [ra : 0..MaxRa, roll : 0..MaxRoll]

\* Quat.q: the four components (fixed point, half angles to second order).
QuatQ(a) == <<a.roll, 0, a.ra, 20000 - (a.ra * a.ra + a.roll * a.roll)>>

\* Quat.__mul__ for the small rotations of the model.
QuatMul(a, dq) == [ra |-> a.ra + dq.ra, roll |-> a.roll + dq.roll]

\* ---------------------------------------------- rotations to second order
\* A rotation exp(e*f + (e*e/2)*s) with a small angle unit e (shift_scene:
\* the 5 arcsec of one pixel), f and s integer vectors <<x, y, z>>, kept to
\* second order in e.  The product is the Baker-Campbell-Hausdorff series
\* cut after the commutator, which is what matrix or quaternion
\* multiplication gives to this order.
Cross(u, v) ==
    <<u[2] * v[3] - u[3] * v[2], u[3] * v[1] - u[1] * v[3], u[1] * v[2] - u[2] * v[1]>>

VAdd(u, v) == <<u[1] + v[1], u[2] + v[2], u[3] + v[3]>>

Rot(f) == [f |-> f, s |-> <<0, 0, 0>>]

\* Quat.__mul__
RotMul(p, q) == [f |-> VAdd(p.f, q.f), s |-> VAdd(VAdd(p.s, q.s), Cross(p.f, q.f))]

\* Quat(equatorial=[ra, dec, 0]): the rotation by ra about z, then by -dec
\* about the new y
RotEquatorial(ra, dec) == RotMul(Rot(<<0, 0, ra>>), Rot(<<0, -dec, 0>>))

\* the attitude set by StarField.shift_scene(dx, dy) at the attitude att
ShiftAttitude(att, dx, dy) == RotMul(att, RotEquatorial(dx, dy))

NoPan == [att |-> Rot(<<0, 0, 0>>), start |-> Rot(<<0, 0, 0>>), undo |-> <<>>, back |-> FALSE]

\* ------------------------------------------------------------- rationals
RECURSIVE Gcd(_, _)
Gcd(a, b) == IF b = 0 THEN a ELSE Gcd(b, a % b)

Rat(n, d) == LET g == Gcd(n, d) IN [n |-> n \div g, d |-> d \div g]
NoRadius == [n |-> 0, d |-> 0]

Max(a, b) == IF a >= b THEN a ELSE b
Min(a, b) == IF a <= b THEN a ELSE b

\* --------------------------------------------------------- StarFieldState
StarFieldState(name, slot, fov, alt, cat, cen, altcen, auto) ==
    [name |-> name, onboard_attitude_slot |-> slot, enable_fov |-> fov,
     enable_alternate_fov |-> alt, enable_catalog |-> cat,
     enable_centroids |-> cen, enable_alternate_fov_centroids |-> altcen,
     auto_proseco |-> auto]

StateNames == {"Telemetry", "Proseco", "Alternate FOV"}

COMMON_STATES ==
    [n \in StateNames |->
        CASE n = "Telemetry" ->
               StarFieldState(n, "attitude", TRUE, FALSE, FALSE, TRUE, FALSE, FALSE)
          [] n = "Proseco" ->
               StarFieldState(n, None, TRUE, FALSE, TRUE, FALSE, FALSE, TRUE)
          [] n = "Alternate FOV" ->
               StarFieldState(n, "alternate_attitude", TRUE, TRUE, FALSE, FALSE, TRUE, FALSE)]

\* ------------------------------------------------------- the AGASC catalog
\* Two stars in every cell but EmptyCell, at the two ends of the cell, a
\* bright one (MAG_ACA 8.5) and a faint one (10.5); magnitudes in 1/100.
AgascStars ==
    {[id |-> p, pos |-> p, healpix_idx |-> p \div CellWidth,
      mag |-> IF p % CellWidth = 0 THEN 850 ELSE 1050] :
        p \in {q \in 0..MaxRa : /\ q \div CellWidth # EmptyCell
                                /\ q % CellWidth \in {0, CellWidth - 1}}}

NoStars == [none |-> TRUE, rows |-> {}]

\* a cone search that also returns the cells next to the cone's
ConeSearchWide(ra, r, num, den) ==
    {c \in Cells :
        /\ (c - 1) * CellWidth * r.d * den <= ra * r.d * den + PosPerDeg * r.n * num
        /\ (c + 2) * CellWidth * r.d * den > ra * r.d * den - PosPerDeg * r.n * num}

\* hp.cone_search_lonlat: the cells that meet the cone of radius r*num/den
\* degrees (r a rational) around ra.
ConeSearch(ra, r, num, den) ==
    {c \in Cells :
        /\ c * CellWidth * r.d * den <= ra * r.d * den + PosPerDeg * r.n * num
        /\ (c + 1) * CellWidth * r.d * den > ra * r.d * den - PosPerDeg * r.n * num}

\* ------------------------------------------------------------------ state
VARIABLES
    sf_attitude,        \* StarField._attitude
    sf_time,            \* StarField._time
    sf_stars,           \* StarField._stars
    sf_healpix,         \* StarField._healpix_indices
    sf_radius,          \* StarField._update_radius (degrees, a rational)
    sf_pos,             \* positions of the star items in the scene
    sf_items,           \* ids of the stars whose graphic item is visible
    sf_state,           \* StarField._state
    sf_states,          \* StarField.states
    sf_vis,             \* visibility of main_fov, alternate_fov, catalog
    sf_cen,             \* show_centroids of main_fov and alternate_fov
    busy,               \* single_entry latches, one per decorated function
    v_start, v_moving, v_rotating,   \* StarView gesture state
    v_scale,            \* StarView transform scale (a rational)
    v_shown,            \* the first resizeEvent has been handled
    n_wheel,            \* wheel events handled so far
    aw,                 \* the AttitudeWidgets of TelemetryView
    source,             \* checked button of attitude_source_group
    log,                \* calls and emissions of the last handler
    ed_parameters,      \* ProsecoParams._parameters (the editor's dict)
    ed_text,            \* the text of the editor's text widget
    alias,              \* ProsecoData's dict holds the editor's id-list objects
    pd_parameters,      \* ProsecoData._parameters
    pd_proseco,         \* ProsecoData._proseco (a CachedVal)
    pd_sparkles,        \* ProsecoData._sparkles (a CachedVal)
    pd_out,             \* what the last read of each accessor gave, since the reset
    n_planner,          \* get_aca_catalog calls since the last reset
    f_file,             \* the entries of the parameter file (yoshi JSON or pickle)
    f_out,              \* what the last get_parameters_from_* call gave
    review_text,        \* the text of TelemetryView.starcat_review
    cat_table,          \* the catalog shown by TelemetryView.catalog_widget
    fa_centroids,       \* FindAttitudeWidget.centroid_table: the enabled slots
    sp_catalog,         \* StarPlot._catalog
    sf2,                \* a second StarField object
    le,                 \* a LineEdit: its text, its _prev_text, and the value
                        \* the slot connected to value_changed received last
    pan,                \* a StarField under pans: its attitude (to second order),
                        \* the attitude before the pans, the pans to undo
    ids,                \* the editor's four id lists, the included flags of
                        \* the star items, the last include_star call
    ct,                 \* a CentroidTable: _table and what the QTableWidget shows
    sent,               \* the dict the last params_changed emission carried
    tvs                 \* TelemetryView's slot enable flags in its three widgets,
                        \* the slot calls pending

vars == <<sf_attitude, sf_time, sf_stars, sf_healpix, sf_radius, sf_pos, sf_items, sf_state,
          sf_states, sf_vis, sf_cen, busy, v_start, v_moving,
          v_rotating, v_scale, v_shown, n_wheel, aw, source, log,
          ed_parameters, ed_text, alias, pd_parameters, pd_proseco, pd_sparkles,
          pd_out, n_planner, f_file, f_out, review_text, cat_table, fa_centroids,
          sp_catalog, sf2, le, pan, ids, ct, sent, tvs>>

\* the star plot and the attitude widgets
svars == <<sf_attitude, sf_time, sf_stars, sf_healpix, sf_radius, sf_pos, sf_items, sf_state,
           sf_states, sf_vis, sf_cen, busy, v_start, v_moving,
           v_rotating, v_scale, v_shown, n_wheel, aw, source>>

\* widgets on their own
wvars == <<le, pan, ids, ct, sent, tvs>>

\* the parameter editor and ProsecoData
pvars == <<ed_parameters, ed_text, alias, pd_parameters, pd_proseco, pd_sparkles,
           pd_out, n_planner>>

\* the parameter file
fvars == <<f_file, f_out>>

\* the catalog review, the catalog widget and the find-attitude widget's table
avars == <<review_text, cat_table, fa_centroids, sp_catalog>>

Pack ==
    [att |-> sf_attitude, time |-> sf_time, stars |-> sf_stars, healpix |-> sf_healpix,
     radius |-> sf_radius, pos |-> sf_pos, items |-> sf_items, state |-> sf_state, states |-> sf_states,
     vis |-> sf_vis, cen |-> sf_cen, busy |-> busy,
     start |-> v_start, moving |-> v_moving, rotating |-> v_rotating,
     scale |-> v_scale, shown |-> v_shown, n_wheel |-> n_wheel, aw |-> aw,
     source |-> source, log |-> <<>>]

\* a StarField whose active state is the object held in states, not a copy
\* of it: what is written to the active state is written to the definition
DefinitionsShared(s) == [s.states EXCEPT ![s.state.name] = s.state]

\* StarField.states after a handler: set_state makes the active state a copy
\* of the definition (dataclasses.replace), and the code writes to the
\* active state only
Definitions(s) == s.states

UnpackScene(s) ==
    /\ sf_attitude' = s.att
    /\ sf_time' = s.time
    /\ sf_stars' = s.stars
    /\ sf_healpix' = s.healpix
    /\ sf_radius' = s.radius
    /\ sf_pos' = s.pos
    /\ sf_items' = s.items
    /\ sf_state' = s.state
    /\ sf_states' = Definitions(s)
    /\ sf_vis' = s.vis
    /\ sf_cen' = s.cen
    /\ busy' = s.busy
    /\ v_start' = s.start
    /\ v_moving' = s.moving
    /\ v_rotating' = s.rotating
    /\ v_scale' = s.scale
    /\ v_shown' = s.shown
    /\ n_wheel' = s.n_wheel
    /\ aw' = s.aw
    /\ source' = s.source
    /\ log' = s.log

Unpack(s) == UnpackScene(s) /\ UNCHANGED <<pvars, fvars, avars, sf2, wvars>>

\* ---------------------------------------------------------------- the log
\* ev: "handler" (the event handled), "call" (a guarded function entered),
\* "return" (it returned; att is the attitude held then), "drop" (a guarded
\* call dropped by the latch), "emit" (a signal emitted), "read" (a slot reads
\* the holder's attitude), "apply" (a scene operation runs).
Ev(ev, who, att, flag, name) ==
    [ev |-> ev, who |-> who, att |-> att, flag |-> flag, name |-> name]

Logged(s, e) == [s EXCEPT !.log = Append(@, e)]

Count(l, ev, who) == Cardinality({i \in DOMAIN l : l[i].ev = ev /\ l[i].who = who})

\* ----------------------------------------------------------------- StarView
\* The side of the visible scene rectangle, times 1.5 * 5 / 3600 / 2: the
\* radius in degrees that StarView.scale and set_visibility derive.
ViewRadius(scale) == Rat((Max(ViewW, ViewH) - 1) * scale.d, 960 * scale.n)

\* StarField.show_fov and show_alternate_fov
ShowFov(s, show) ==
    IF s.state.enable_fov THEN [s EXCEPT !.vis.main_fov = show] ELSE s

ShowAlternateFov(s, show) ==
    IF s.state.enable_alternate_fov THEN [s EXCEPT !.vis.alternate_fov = show] ELSE s

\* r_threshold and mags of set_visibility (degrees; magnitudes in 1/100)
RThreshold == <<2, 4, 6, 8, 10, 11, 15>>
Mags == <<1400, 1100, 1030, 900, 950, 800, 700, 300>>

\* np.digitize(radius, r_threshold): the number of thresholds <= radius
Digitize(radius) ==
    Cardinality({i \in DOMAIN RThreshold : RThreshold[i] * radius.d <= radius.n})

\* a set_visibility that shows every star inside the radius
SetVisibilityAnyMag(s) ==
    IF s.stars.none \/ s.att = NoneAtt THEN s
    ELSE LET radius == ViewRadius(s.scale)
             show == radius.n < 6 * radius.d
             hide == {st \in s.stars.rows :
                         \/ (st.pos - s.att.ra) * radius.d > PosPerDeg * radius.n
                         \/ (s.att.ra - st.pos) * radius.d > PosPerDeg * radius.n}
             s1 == Logged(s, Ev("apply", "set_visibility", s.att, FALSE, ""))
         IN ShowAlternateFov(ShowFov([s1 EXCEPT !.items = {st.id : st \in s.stars.rows \ hide}],
                                     show), show)

\* StarView.set_visibility (stars are loaded only once an attitude is held;
\* the star field of the model never loses its attitude after that)
SetVisibility(s) ==
    IF s.stars.none \/ s.att = NoneAtt THEN s
    ELSE LET radius == ViewRadius(s.scale)
             show == radius.n < 6 * radius.d
             max_mag == Mags[Digitize(radius) + 1]
             hide == {st \in s.stars.rows :
                         \/ (st.pos - s.att.ra) * radius.d > PosPerDeg * radius.n
                         \/ (s.att.ra - st.pos) * radius.d > PosPerDeg * radius.n
                         \/ st.mag > max_mag}
             s1 == Logged(s, Ev("apply", "set_visibility", s.att, FALSE, ""))
         IN ShowAlternateFov(ShowFov([s1 EXCEPT !.items = {st.id : st \in s.stars.rows \ hide}],
                                     show), show)

\* ---------------------------------------------------------------- StarField
\* StarField.set_star_positions
SetStarPositions(s) ==
    IF ~s.stars.none /\ s.att # NoneAtt
    THEN [s EXCEPT !.pos = {[id |-> st.id, x |-> st.pos - s.att.ra, roll |-> s.att.roll] :
                                st \in s.stars.rows}]
    ELSE s

\* an update_stars that evicts what is outside the load cone
UpdateStarsNoHysteresis(s, r) ==
    LET s1 == IF r # NoRadius THEN [s EXCEPT !.radius = r] ELSE s IN
    IF s1.att = NoneAtt \/ s1.time = None THEN s1
    ELSE
    LET s2 == Logged(s1, Ev("apply", "update_stars", s1.att, FALSE, s1.time))
        load == ConeSearch(s1.att.ra, s1.radius, 1, 1)
        add_indices == load \ s1.healpix
        remove_indices == s1.healpix \ load
        kept == IF s1.stars.none THEN s1.stars
                ELSE [none |-> FALSE,
                      rows |-> {st \in s1.stars.rows : st.healpix_idx \notin remove_indices}]
        new == {[id |-> st.id, pos |-> st.pos, healpix_idx |-> st.healpix_idx,
                 mag |-> st.mag, epoch |-> s1.time] :
                    st \in {x \in AgascStars : x.healpix_idx \in add_indices}}
        stars == IF add_indices # {}
                 THEN [none |-> FALSE, rows |-> kept.rows \cup new]
                 ELSE kept
    IN SetStarPositions([s2 EXCEPT !.stars = stars,
                                   !.items = (@ \cap {st.id : st \in kept.rows})
                                                \cup {st.id : st \in stars.rows \ kept.rows},
                                   !.healpix = {st.healpix_idx : st \in stars.rows}])

\* an update_stars that loads stars although no epoch is set
UpdateStarsNoEpochCheck(s, r) ==
    LET s1 == IF r # NoRadius THEN [s EXCEPT !.radius = r] ELSE s IN
    IF s1.att = NoneAtt THEN s1
    ELSE
    LET s2 == Logged(s1, Ev("apply", "update_stars", s1.att, FALSE, s1.time))
        load == ConeSearch(s1.att.ra, s1.radius, 1, 1)
        add_indices == load \ s1.healpix
        unload == ConeSearch(s1.att.ra, s1.radius, 3, 2)
        remove_indices == s1.healpix \ unload
        kept == IF s1.stars.none THEN s1.stars
                ELSE [none |-> FALSE,
                      rows |-> {st \in s1.stars.rows : st.healpix_idx \notin remove_indices}]
        new == {[id |-> st.id, pos |-> st.pos, healpix_idx |-> st.healpix_idx,
                 mag |-> st.mag, epoch |-> s1.time] :
                    st \in {x \in AgascStars : x.healpix_idx \in add_indices}}
        stars == IF add_indices # {}
                 THEN [none |-> FALSE, rows |-> kept.rows \cup new]
                 ELSE kept
    IN SetStarPositions([s2 EXCEPT !.stars = stars,
                                   !.items = (@ \cap {st.id : st \in kept.rows})
                                                \cup {st.id : st \in stars.rows \ kept.rows},
                                   !.healpix = {st.healpix_idx : st \in stars.rows}])

\* StarField.update_stars; r = NoRadius stands for radius=None
UpdateStars(s, r) ==
    LET s1 == IF r # NoRadius THEN [s EXCEPT !.radius = r] ELSE s IN
    IF s1.att = NoneAtt \/ s1.time = None THEN s1
    ELSE
    LET s2 == Logged(s1, Ev("apply", "update_stars", s1.att, FALSE, s1.time))
        load == ConeSearch(s1.att.ra, s1.radius, 1, 1)
        add_indices == load \ s1.healpix
        unload == ConeSearch(s1.att.ra, s1.radius, 3, 2)
        remove_indices == s1.healpix \ unload
        kept == IF s1.stars.none THEN s1.stars
                ELSE [none |-> FALSE,
                      rows |-> {st \in s1.stars.rows : st.healpix_idx \notin remove_indices}]
        new == {[id |-> st.id, pos |-> st.pos, healpix_idx |-> st.healpix_idx,
                 mag |-> st.mag, epoch |-> s1.time] :
                    st \in {x \in AgascStars : x.healpix_idx \in add_indices}}
        stars == IF add_indices # {}
                 THEN [none |-> FALSE, rows |-> kept.rows \cup new]
                 ELSE kept
    IN SetStarPositions([s2 EXCEPT !.stars = stars,
                                   !.items = (@ \cap {st.id : st \in kept.rows})
                                                \cup {st.id : st \in stars.rows \ kept.rows},
                                   !.healpix = {st.healpix_idx : st \in stars.rows}])

\* ----------------------------------------------------------- AttitudeWidget
AttitudeWidgets == {"onboard", "view", "solution"}

\* a comparison that asks every component to differ
QAllDiffer(a, b) ==
    IF a = NoneAtt \/ b = NoneAtt THEN a # b
    ELSE \A i \in 1..4 : QuatQ(a)[i] # QuatQ(b)[i]

\* np.any(q1 != q2), where a None operand compares unequal to everything
\* but None
QAny(a, b) ==
    IF a = NoneAtt \/ b = NoneAtt THEN a # b
    ELSE \E i \in 1..4 : QuatQ(a)[i] # QuatQ(b)[i]

\* AttitudeWidget._clear: the three text boxes are reset
AwClear(s, w) == [s EXCEPT !.aw[w].shown = NoneAtt]

\* AttitudeWidget._display_attitude_at_date
AwDisplay(s, w, attitude) ==
    IF attitude = NoneAtt THEN AwClear(s, w) ELSE [s EXCEPT !.aw[w].shown = attitude]

RECURSIVE SetAttitude(_, _, _)

\* TelemetryView._set_user_attitude -> set_attitude_source("User")
SetUserAttitude(s) ==
    [s EXCEPT !.source = "User", !.state.onboard_attitude_slot = "alternate_attitude"]

\* AttitudeWidget._set_attitude without its emission: the new state and
\* whether a signal is due
AwStore(s, w, attitude) ==
    IF attitude = NoneAtt THEN AwClear(s, w)
    ELSE IF QAny(attitude, s.aw[w].attitude)
         THEN AwDisplay([s EXCEPT !.aw[w].attitude = attitude], w, attitude)
         ELSE s

\* AttitudeWidget.set_attitude: _set_attitude(attitude, emit=False)
AwSetAttitude(s, w, attitude) == AwStore(s, w, attitude)

\* TelemetryView.set_view_attitude
SetViewAttitude(s, attitude) ==
    SetAttitude(AwSetAttitude(s, "view", attitude), attitude, FALSE)

\* StarPlot._attitude_changed and the slots of StarPlot.attitude_changed
StarPlotAttitudeChanged(s) ==
    IF s.att = NoneAtt THEN s
    ELSE LET payload == s.att
             s1 == Logged(s, Ev("read", "StarPlot._attitude_changed", payload, FALSE, ""))
             s2 == Logged(s1, Ev("emit", "StarPlot.attitude_changed", payload, FALSE, ""))
         IN SetUserAttitude(SetViewAttitude(s2, payload))

\* StarField.set_attitude, the decorated function
SetAttitudeBody(s, attitude, emit) ==
    IF QAny(s.att, attitude)
    THEN LET s2 == UpdateStars([s EXCEPT !.att = attitude], NoRadius)
         IN IF emit
            THEN SetVisibility(StarPlotAttitudeChanged(
                     Logged(s2, Ev("emit", "StarField.attitude_changed", NoneAtt, FALSE, ""))))
            ELSE s2
    ELSE s

\* StarField.set_attitude without the latch
SetAttitudeNoLatch(s, attitude, emit) ==
    LET s1 == Logged(s, Ev("call", "StarField.set_attitude", attitude, emit, ""))
        s2 == SetAttitudeBody(s1, attitude, emit)
    IN Logged(s2, Ev("return", "StarField.set_attitude", s2.att, emit, ""))

\* utils.single_entry without its except clause: the latch stays set when
\* the decorated function raises
SetAttitudeNoExcept(s, attitude, emit) ==
    IF ~s.busy.set_attitude
    THEN LET s1 == Logged([s EXCEPT !.busy.set_attitude = TRUE],
                          Ev("call", "StarField.set_attitude", attitude, emit, ""))
             s2 == SetAttitudeBody(s1, attitude, emit)
         IN IF attitude = BadAtt
            THEN Logged(s1, Ev("escape", "StarField.set_attitude", attitude, emit, "ValueError"))
            ELSE Logged([s2 EXCEPT !.busy.set_attitude = FALSE],
                        Ev("return", "StarField.set_attitude", s2.att, emit, ""))
    ELSE Logged(s, Ev("drop", "StarField.set_attitude", attitude, emit, ""))

\* utils.single_entry around StarField.set_attitude.  Quat(attitude) raises
\* for BadAtt, before the decorated function has changed anything.
SetAttitude(s, attitude, emit) ==
    IF ~s.busy.set_attitude
    THEN LET s1 == Logged([s EXCEPT !.busy.set_attitude = TRUE],
                          Ev("call", "StarField.set_attitude", attitude, emit, ""))
             s2 == SetAttitudeBody(s1, attitude, emit)
         IN IF attitude = BadAtt
            THEN Logged([s1 EXCEPT !.busy.set_attitude = FALSE],
                        Ev("escape", "StarField.set_attitude", attitude, emit, "ValueError"))
            ELSE Logged([s2 EXCEPT !.busy.set_attitude = FALSE],
                        Ev("return", "StarField.set_attitude", s2.att, emit, ""))
    ELSE Logged(s, Ev("drop", "StarField.set_attitude", attitude, emit, ""))

\* AttitudeWidget._set_attitude with the slots TelemetryView connects to
\* attitude_changed of the widget
AwSetAttitudeEmit(s, w, attitude, emit) ==
    LET s1 == AwStore(s, w, attitude) IN
    IF ~emit THEN s1
    ELSE IF attitude = NoneAtt
         THEN Logged(s1, Ev("emit", "AttitudeWidget.attitude_cleared", NoneAtt, FALSE, w))
    ELSE IF QAny(attitude, s.aw[w].attitude)
         THEN LET s2 == Logged(s1, Ev("emit", "AttitudeWidget.attitude_changed",
                                      s1.aw[w].attitude, FALSE, w))
              IN IF w = "view" THEN SetUserAttitude(SetViewAttitude(s2, s2.aw[w].attitude))
                 ELSE s2
    ELSE s1

\* StarField.set_onboard_attitude (the alternate outline's own attitude is
\* not part of the model)
SetOnboardAttitudeSlot(s, attitude) ==
    IF s.state.onboard_attitude_slot = "attitude" THEN SetAttitude(s, attitude, FALSE)
    ELSE s

\* StarField.set_time
SetTimeScene(s, time) ==
    IF time # s.time THEN UpdateStars([s EXCEPT !.time = time], NoRadius) ELSE s

\* ------------------------------------------------------------ TelemetryView
\* TelemetryView.set_attitude_source
SetAttitudeSource(s, src) ==
    LET s1 == [s EXCEPT !.source = src] IN
    IF src = "Telemetry"
    THEN [SetViewAttitude(s1, s1.aw["onboard"].attitude)
             EXCEPT !.state.onboard_attitude_slot = "attitude"]
    ELSE [s1 EXCEPT !.state.onboard_attitude_slot = "alternate_attitude"]

\* TelemetryView.set_onboard_attitude
TvSetOnboardAttitude(s, att) ==
    LET s1 == AwSetAttitude(s, "onboard", att)
        s2 == SetOnboardAttitudeSlot(s1, att)
    IN IF s2.source = "Telemetry" THEN SetViewAttitude(s2, att) ELSE s2

Handler(name, att, flag, arg) == Logged(Pack, Ev("handler", name, att, flag, arg))

\* ------------------------------------------------- python and JSON values
\* A python value is a record of its type and its content; a string is held
\* as the code of its text.
PyNone == [t |-> "none", v |-> <<>>]
Missing == [t |-> "missing", v |-> <<>>]       \* the dict has no such key
Str(c) == [t |-> "str", v |-> <<c>>]
List(q) == [t |-> "list", v |-> q]
Tuple(q) == [t |-> "tuple", v |-> q]

\* the keys of the parameter dict that are modelled
Keys == {"date", "att", "detector", "dither_acq", "include_ids_acq"}

\* ProsecoParams.default_params
default_params ==
    [date |-> PyNone, att |-> PyNone, detector |-> PyNone,
     dither_acq |-> Tuple(<<16, 16>>), include_ids_acq |-> List(<<>>)]

\* {} (and ProsecoData's initial None: the code only tests its truth value)
EmptyDict == [k \in Keys |-> Missing]

\* a JSON text is invalid, or holds a value that is an object or not; the
\* members of an object are JSON values
JNull == [t |-> "null", v |-> <<>>]
Absent == [t |-> "absent", v |-> <<>>]         \* the object has no such member
InvalidText == [kind |-> "invalid", obj |-> [k \in Keys |-> Absent]]
ArrayText == [kind |-> "array", obj |-> [k \in Keys |-> Absent]]
NumberText == [kind |-> "number", obj |-> [k \in Keys |-> Absent]]

\* json.dumps of a value: None is null, a list and a tuple are both an array
DumpVal(x) ==
    CASE x.t = "none" -> JNull
      [] x.t = "missing" -> Absent
      [] x.t = "str" -> [t |-> "string", v |-> x.v]
      [] OTHER -> [t |-> "array", v |-> x.v]

\* json.dumps(self._parameters, indent=2)
Dumps(d) == [kind |-> "object", obj |-> [k \in Keys |-> DumpVal(d[k])]]

\* json.loads of a value: an array is a list
LoadVal(j) ==
    CASE j.t = "null" -> PyNone
      [] j.t = "absent" -> Missing
      [] j.t = "string" -> Str(j.v[1])
      [] OTHER -> List(j.v)

\* json.loads of the text of an object
Loads(text) == [k \in Keys |-> LoadVal(text.obj[k])]

\* ------------------------------------------------------------ ProsecoData
\* what an accessor read gives: a value (the external call's result for the
\* parameters `for`), {} or None, or a raised exception
NoRet == [kind |-> "", for |-> EmptyDict, type |-> "", msg |-> ""]
Value(what, params) == [kind |-> what, for |-> params, type |-> "", msg |-> ""]
Raise(type, msg) == [kind |-> "raise", for |-> EmptyDict, type |-> type, msg |-> msg]

\* outcomes of an external call: it returns, or raises an exception of a type
Outcomes == {"ok", "ValueError", "Exception"}

\* the state of a ProsecoData
PdPack ==
    [params |-> pd_parameters, proseco |-> pd_proseco, sparkles |-> pd_sparkles,
     out |-> pd_out, n_planner |-> n_planner, ret |-> NoRet, ext |-> <<>>]

\* utils.LazyVal of ska_helpers: not loaded, or the loaded value
NotLoaded == [set |-> FALSE, val |-> NoRet]

\* a call of an external tool, and its outcome
Called(d, tool, o) == [d EXCEPT !.ext = Append(@, Ev("call", tool, NoneAtt, FALSE, o))]

\* a variant of run_proseco that lets the planner's exception through
RunProsecoReraise(d, o) ==
    IF d.params # EmptyDict
    THEN LET d1 == Called([d EXCEPT !.n_planner = @ + 1], "get_aca_catalog", o)
         IN IF o = "ok" THEN [d1 EXCEPT !.ret = Value("catalog", d.params)]
            ELSE [d1 EXCEPT !.ret = Raise(o, "get_aca_catalog")]
    ELSE [d EXCEPT !.ret = Value("{}", EmptyDict)]

\* ProsecoData.run_proseco; o is the outcome of get_aca_catalog
RunProseco(d, o) ==
    IF d.params # EmptyDict
    THEN LET d1 == Called([d EXCEPT !.n_planner = @ + 1], "get_aca_catalog", o)
         IN IF o = "ok" THEN [d1 EXCEPT !.ret = Value("catalog", d.params)]
            ELSE [d1 EXCEPT !.ret = Raise("Exception", "ProsecoData failed calling proseco")]
    ELSE [d EXCEPT !.ret = Value("{}", EmptyDict)]

\* ProsecoData.proseco: CachedVal.val, LazyVal.val (a cached property: a load
\* that raises stores nothing)
Proseco(d, o) ==
    IF d.proseco.set THEN [d EXCEPT !.ret = d.proseco.val]
    ELSE LET d1 == RunProseco(d, o)
         IN IF d1.ret.kind = "raise" THEN d1
            ELSE [d1 EXCEPT !.proseco = [set |-> TRUE, val |-> d1.ret]]

\* ProsecoData.run_sparkles; o is the outcome of get_aca_catalog if the
\* proseco accessor calls it, o2 the outcome of run_aca_review
RunSparkles(d, o, o2) ==
    LET d1 == Proseco(d, o)
    IN IF d1.ret.kind = "raise" THEN d1
       ELSE IF d1.ret.kind = "catalog"
       THEN LET d2 == Called(d1, "run_aca_review", o2)
            IN IF o2 = "ok" THEN [d2 EXCEPT !.ret = Value("report", d1.ret.for)]
               ELSE [d2 EXCEPT !.ret = Raise("Exception", "ProsecoData failed calling sparkles")]
       ELSE [d1 EXCEPT !.ret = Value("None", EmptyDict)]

\* ProsecoData.sparkles
Sparkles(d, o, o2) ==
    IF d.sparkles.set THEN [d EXCEPT !.ret = d.sparkles.val]
    ELSE LET d1 == RunSparkles(d, o, o2)
         IN IF d1.ret.kind = "raise" THEN d1
            ELSE [d1 EXCEPT !.sparkles = [set |-> TRUE, val |-> d1.ret]]

\* ProsecoData.reset
PdReset(d, parameters) ==
    [d EXCEPT !.params = parameters, !.proseco = NotLoaded, !.sparkles = NotLoaded,
              !.out = [proseco |-> NoRet, sparkles |-> NoRet], !.n_planner = 0]

\* the ProsecoData's part of a step
PdUnpack(d) ==
    /\ pd_parameters' = d.params
    /\ pd_proseco' = d.proseco
    /\ pd_sparkles' = d.sparkles
    /\ pd_out' = d.out
    /\ n_planner' = d.n_planner

\* ------------------------------------------------------ parameter files
MaxEntries == 2         \* entries of a parameter file
MaxObsid == 2           \* observation identifiers 1..MaxObsid

\* An observation identifier as a python value: an int, a float or the str
\* of the number n.
Obsid(r, n) == [rep |-> r, n |-> n]
Reps == {"int", "float", "str"}

\* python ==: an int and a float of the same value are equal, a str equals
\* no number
PyEq(a, b) == a.n = b.n /\ ((a.rep = "str") <=> (b.rep = "str"))

\* float(x) of a number or of the str of a number
Float(x) == Obsid("float", x.n)

NoOut == [fn |-> "", obsid |-> 0, kind |-> "", entry |-> 0]
\* the parameters of the entry at a position of the file are returned
Returned(fn, obsid, i) == [fn |-> fn, obsid |-> obsid.n, kind |-> "parameters", entry |-> i]
Raised(fn, obsid, type) == [fn |-> fn, obsid |-> obsid.n, kind |-> type, entry |-> 0]

\* the positions of the entries whose key equals x
Matches(file, x) == {i \in DOMAIN file : PyEq(file[i].key, x)}
First(S) == CHOOSE i \in S : \A j \in S : i <= j

\* utils.get_parameters_from_yoshi(filename, obsid), obsid not None: the
\* entries with obs["obsid"] == obsid are kept and the first one is used
Yoshi(file, obsid) ==
    IF Matches(file, obsid) = {} THEN Raised("yoshi", obsid, "AperollException")
    ELSE Returned("yoshi", obsid, First(Matches(file, obsid)))

\* utils.get_parameters_from_pickle(filename, obsid), obsid not None: the
\* dict of the file is looked up with float(obsid)
Pickle(file, obsid) ==
    IF file = <<>> THEN Raised("pickle", obsid, "AperollException")
    ELSE IF Matches(file, Float(obsid)) = {} THEN Raised("pickle", obsid, "AperollException")
    ELSE Returned("pickle", obsid, First(Matches(file, Float(obsid))))

\* the keys of a dict are pairwise different
IsDict(file) == \A i, j \in DOMAIN file : PyEq(file[i].key, file[j].key) => i = j

\* an entry is written to the parameter file
AddEntry(key) ==
    /\ Len(f_file) < MaxEntries
    /\ f_file' = Append(f_file, [key |-> key])
    /\ f_out' = NoOut
    /\ log' = <<>>
    /\ UNCHANGED <<svars, pvars, avars, sf2, wvars>>

\* get_parameters_from_yoshi is called on the file
GetParametersFromYoshi(obsid) ==
    /\ f_out' = Yoshi(f_file, obsid)
    /\ log' = <<>>
    /\ UNCHANGED <<f_file, svars, pvars, avars, sf2, wvars>>

\* get_parameters_from_pickle is called on the file (a pickled dict)
GetParametersFromPickle(obsid) ==
    /\ IsDict(f_file)
    /\ f_out' = Pickle(f_file, obsid)
    /\ log' = <<>>
    /\ UNCHANGED <<f_file, svars, pvars, avars, sf2, wvars>>

NoCatalog == [src |-> "", date |-> None, att |-> NoneAtt]

\* ----------------------------------------- included and excluded star ids
StarIds == {1, 2}
IdTypes == {"acq", "guide"}
IdLists == {"include_ids_acq", "exclude_ids_acq", "include_ids_guide", "exclude_ids_guide"}

IncludeKey(type) == IF type = "acq" THEN "include_ids_acq" ELSE "include_ids_guide"
ExcludeKey(type) == IF type = "acq" THEN "exclude_ids_acq" ELSE "exclude_ids_guide"

SeqHas(q, x) == \E i \in DOMAIN q : q[i] = x

\* list.remove(x): the first occurrence
SeqRemove(q, x) ==
    LET i == CHOOSE i \in DOMAIN q : q[i] = x /\ \A j \in 1..(i - 1) : q[j] # x
    IN SubSeq(q, 1, i - 1) \o SubSeq(q, i + 1, Len(q))

\* an include_star that leaves the exclude list alone when it includes
IncludeStarKeepExcluded(p, star, type, include) ==
    LET inc == p[IncludeKey(type)]
        exc == p[ExcludeKey(type)]
    IN IF include = "True"
       THEN [p EXCEPT ![IncludeKey(type)] = IF ~SeqHas(inc, star) THEN Append(inc, star) ELSE inc]
       ELSE IF include = "False"
       THEN [p EXCEPT ![IncludeKey(type)] = IF SeqHas(inc, star) THEN SeqRemove(inc, star) ELSE inc,
                      ![ExcludeKey(type)] = IF ~SeqHas(exc, star) THEN Append(exc, star) ELSE exc]
       ELSE [p EXCEPT ![IncludeKey(type)] = IF SeqHas(inc, star) THEN SeqRemove(inc, star) ELSE inc,
                      ![ExcludeKey(type)] = IF SeqHas(exc, star) THEN SeqRemove(exc, star) ELSE exc]

\* ProsecoParams.include_star on the four id lists p of the parameters;
\* include is "True", "False" or "None"
IncludeStarIn(p, star, type, include) ==
    LET inc == p[IncludeKey(type)]
        exc == p[ExcludeKey(type)]
    IN IF include = "True"
       THEN [p EXCEPT ![IncludeKey(type)] = IF ~SeqHas(inc, star) THEN Append(inc, star) ELSE inc,
                      ![ExcludeKey(type)] = IF SeqHas(exc, star) THEN SeqRemove(exc, star) ELSE exc]
       ELSE IF include = "False"
       THEN [p EXCEPT ![IncludeKey(type)] = IF SeqHas(inc, star) THEN SeqRemove(inc, star) ELSE inc,
                      ![ExcludeKey(type)] = IF ~SeqHas(exc, star) THEN Append(exc, star) ELSE exc]
       ELSE [p EXCEPT ![IncludeKey(type)] = IF SeqHas(inc, star) THEN SeqRemove(inc, star) ELSE inc,
                      ![ExcludeKey(type)] = IF SeqHas(exc, star) THEN SeqRemove(exc, star) ELSE exc]

\* the default parameters' id lists, star items that are neither included
\* nor excluded, no call yet
NoIds ==
    [lists |-> [k \in IdLists |-> <<>>],
     included |-> [st \in StarIds |-> [ty \in IdTypes |-> "None"]],
     call |-> [star |-> 0, type |-> "", include |-> "None"]]

\* ----------------------------------------------------------- CentroidTable
\* the rows of the table that are modelled (the code has eight, slots 0..7)
TableSlots == {0, 1}

\* _reset_table: every column zero (the slot column is the row number)
ZeroRow == [enable |-> FALSE, enabled |-> FALSE, yang |-> 0]
ZeroTable == [slot \in TableSlots |-> ZeroRow]

\* a CentroidTable after __init__: _reset_table, checkboxes unchecked
NewCentroidTable == [table |-> ZeroTable, shown |-> ZeroTable]

\* the centroids handed to set_centroids: columns slot, yang, enabled
\* (match: the slot column is 0..7)
Centroids ==
    [match : BOOLEAN, rows : [TableSlots -> [enabled : BOOLEAN, yang : {0, 1}]]]

\* CentroidTable.set_centroids
CtSetCentroidsIn(c, centroids) ==
    LET c1 == [c EXCEPT !.table = ZeroTable]
    IN IF ~centroids.match THEN c1
       ELSE LET table == [slot \in TableSlots |->
                             [enable |-> centroids.rows[slot].enabled,
                              enabled |-> centroids.rows[slot].enabled,
                              yang |-> centroids.rows[slot].yang]]
            IN [table |-> table, shown |-> table]

\* --------------------------------------- the slot enable flags of a view
\* "no call has been made"
NoToggle == [slot |-> -1, enable |-> FALSE]
AllFalse == [slot \in TableSlots |-> FALSE]
AllTrue == [slot \in TableSlots |-> TRUE]

\* TelemetryView after construction: the "enable" column of the find-attitude
\* widget's centroid table (fa) and of the tracking catalog table (cw) with
\* their checkboxes, all zero after _reset_table; the excluded flags of the
\* star plot's centroid items in the main and the alternate field of view
\* (aperoll.star_field_items, taken to start excluded so that the three
\* widgets agree); the slot calls still to be made, innermost first; the
\* toggle that started them
NewSlotFlags ==
    [fa |-> AllFalse, fa_shown |-> AllFalse, cw |-> AllFalse, cw_shown |-> AllFalse,
     fov |-> AllTrue, alt |-> AllTrue, stack |-> <<>>, toggle |-> NoToggle]

\* a StarField after __init__
NewStarField ==
    [att |-> NoneAtt, time |-> None, stars |-> NoStars, healpix |-> {},
     radius |-> Rat(2, 1), pos |-> {}, items |-> {}, states |-> COMMON_STATES,
     state |-> COMMON_STATES["Telemetry"],
     vis |-> [main_fov |-> TRUE, alternate_fov |-> FALSE, catalog |-> FALSE],
     cen |-> [main_fov |-> TRUE, alternate_fov |-> FALSE]]

\* ------------------------------------------------------------------ actions
Init ==
    /\ sf_attitude = NoneAtt
    /\ sf_time = None
    /\ sf_stars = NoStars
    /\ sf_healpix = {}
    /\ sf_radius = Rat(2, 1)
    /\ sf_pos = {}
    /\ sf_items = {}
    /\ sf_states = COMMON_STATES
    /\ sf_state = COMMON_STATES["Telemetry"]
    /\ sf_vis = [main_fov |-> TRUE, alternate_fov |-> FALSE, catalog |-> FALSE]
    /\ sf_cen = [main_fov |-> TRUE, alternate_fov |-> FALSE]
    /\ busy = [set_attitude |-> FALSE, set_state |-> FALSE]
    /\ v_start = NoStart
    /\ v_moving = FALSE
    /\ v_rotating = FALSE
    /\ v_scale = Rat(1, 1)
    /\ v_shown = FALSE
    /\ n_wheel = 0
    /\ aw = [w \in AttitudeWidgets |-> [attitude |-> NoneAtt, shown |-> NoneAtt]]
    /\ source = "Telemetry"
    /\ log = <<>>
    /\ ed_parameters = default_params
    /\ ed_text = Dumps(default_params)
    /\ alias = FALSE
    /\ pd_parameters = EmptyDict
    /\ pd_proseco = NotLoaded
    /\ pd_sparkles = NotLoaded
    /\ pd_out = [proseco |-> NoRet, sparkles |-> NoRet]
    /\ n_planner = 0
    /\ f_file = <<>>
    /\ f_out = NoOut
    /\ review_text = ""
    /\ cat_table = NoCatalog
    /\ fa_centroids = [enable |-> {}, enabled |-> {}]
    /\ sp_catalog = NoCatalog
    /\ sf2 = NewStarField
    /\ le = [text |-> "", prev |-> "", value |-> ""]
    /\ pan = NoPan
    /\ ids = NoIds
    /\ ct = NewCentroidTable
    /\ sent = EmptyDict
    /\ tvs = NewSlotFlags

\* TelemetryView.set_time (the star plot's part)
SetTime(t) ==
    /\ sf_time = None \/ t = sf_time \/ (sf_time = Epoch0 /\ t = Epoch1)
    /\ Unpack(SetTimeScene(Handler("set_time", NoneAtt, FALSE, t), t))

\* TelemetryView.set_onboard_attitude: a telemetry update
SetOnboardAttitude(a) ==
    Unpack(TvSetOnboardAttitude(Handler("set_onboard_attitude", a, FALSE, ""), a))

\* AttitudeWidget._set_attitude on the view attitude widget (the slot of its
\* text boxes' values_changed, emit=True; set_attitude, emit=False)
EditViewAttitude(a, emit) ==
    Unpack(AwSetAttitudeEmit(Handler("_set_attitude", a, emit, "view"), "view", a, emit))

\* a click on a button of attitude_source_group
ClickAttitudeSource(src) ==
    Unpack(SetAttitudeSource(Handler("set_attitude_source", NoneAtt, FALSE, src), src))

\* -------------------------------------------------- display state (modes)
\* StarField.enable_fov, enable_alternate_fov, enable_catalog
EnableFov(s, enable) ==
    [s EXCEPT !.state.enable_fov = enable, !.vis.main_fov = enable]

EnableAlternateFov(s, enable) ==
    [s EXCEPT !.state.enable_alternate_fov = enable, !.vis.alternate_fov = enable]

EnableCatalog(s, enable) ==
    [s EXCEPT !.state.enable_catalog = enable, !.vis.catalog = enable]

\* a set_state that leaves the catalog's toggle and visibility as they are
SetStateKeepCatalog(s, state_name) ==
    LET s0 == [s EXCEPT !.state = [s.states[state_name]
                                      EXCEPT !.enable_catalog = s.state.enable_catalog]]
        s1 == EnableFov(s0, s0.state.enable_fov)
        s2 == EnableAlternateFov(s1, s1.state.enable_alternate_fov)
        s4 == [s2 EXCEPT !.cen.alternate_fov = s2.state.enable_alternate_fov_centroids]
        s5 == [s4 EXCEPT !.cen.main_fov = s4.state.enable_centroids]
    IN Logged(s5, Ev("emit", "StarField.state_changed", NoneAtt, FALSE, state_name))

\* StarField.set_state, the decorated function
SetStateBody(s, state_name) ==
    LET s0 == [s EXCEPT !.state = s.states[state_name]]
        s1 == EnableFov(s0, s0.state.enable_fov)
        s2 == EnableAlternateFov(s1, s1.state.enable_alternate_fov)
        s3 == EnableCatalog(s2, s2.state.enable_catalog)
        s4 == [s3 EXCEPT !.cen.alternate_fov = s3.state.enable_alternate_fov_centroids]
        s5 == [s4 EXCEPT !.cen.main_fov = s4.state.enable_centroids]
        s6 == [s5 EXCEPT !.state.onboard_attitude_slot = s5.state.onboard_attitude_slot]
    IN Logged(s6, Ev("emit", "StarField.state_changed", NoneAtt, FALSE, state_name))

\* a set_state that returns at once when the mode is already the active one
SetStateSkipSame(s, state_name) ==
    IF state_name = s.state.name
    THEN Logged(s, Ev("call", "StarField.set_state", NoneAtt,
                          state_name = s.state.name, state_name))
    ELSE LET s1 == Logged([s EXCEPT !.busy.set_state = TRUE],
                          Ev("call", "StarField.set_state", NoneAtt,
                          state_name = s.state.name, state_name))
             s2 == SetStateBody(s1, state_name)
         IN [s2 EXCEPT !.busy.set_state = FALSE]

\* utils.single_entry around StarField.set_state (the log's flag: the mode
\* asked for is the active one)
SetState(s, state_name) ==
    IF ~s.busy.set_state
    THEN LET s1 == Logged([s EXCEPT !.busy.set_state = TRUE],
                          Ev("call", "StarField.set_state", NoneAtt,
                          state_name = s.state.name, state_name))
             s2 == SetStateBody(s1, state_name)
         IN IF state_name \notin DOMAIN s.states
            THEN Logged([s1 EXCEPT !.busy.set_state = FALSE],
                        Ev("escape", "StarField.set_state", NoneAtt, FALSE, "KeyError"))
            ELSE [s2 EXCEPT !.busy.set_state = FALSE]
    ELSE Logged(s, Ev("drop", "StarField.set_state", NoneAtt, FALSE, state_name))

\* ------------------------------------------------------- StarView gestures
\* StarField.shift_scene
ShiftScene(s, dx) ==
    IF s.att = NoneAtt THEN s
    ELSE SetAttitude(s, QuatMul(s.att, [ra |-> dx, roll |-> 0]), TRUE)

\* StarField.rotate_scene
RotateScene(s, angle) ==
    IF s.att = NoneAtt THEN s
    ELSE SetAttitude(s, QuatMul(s.att, [ra |-> 0, roll |-> -angle]), TRUE)

\* StarView.mouseMoveEvent
MouseMoveEvent(s, pos, shift) ==
    IF s.start = NoStart THEN s
    ELSE
    LET s1 == IF pos # s.start
              THEN IF shift THEN [s EXCEPT !.rotating = TRUE]
                   ELSE [s EXCEPT !.moving = TRUE]
              ELSE s
    IN IF s1.moving \/ s1.rotating
       THEN LET s2 == IF s1.state.onboard_attitude_slot = "attitude"
                      THEN [s1 EXCEPT !.state.onboard_attitude_slot = "alternate_attitude"]
                      ELSE s1
                s3 == IF s2.moving
                      THEN ShiftScene(Logged(s2, Ev("apply", "shift_scene", NoneAtt, shift, "")),
                                      pos - s2.start)
                      ELSE RotateScene(Logged(s2, Ev("apply", "rotate_scene", NoneAtt, shift, "")),
                                       s2.start - pos)
            IN [s3 EXCEPT !.start = pos]
       ELSE s1

\* a release that asks for a new catalog whether or not the view was dragged
MouseReleaseAlwaysEmits(s, left) ==
    IF left
    THEN LET s1 == [s EXCEPT !.start = NoStart] IN
         IF s1.state.auto_proseco
         THEN Logged(s1, Ev("emit", "StarView.update_proseco", NoneAtt, FALSE, ""))
         ELSE s1
    ELSE s

\* StarView.mouseReleaseEvent
MouseReleaseEvent(s, left) ==
    IF left
    THEN LET s1 == [s EXCEPT !.start = NoStart] IN
         IF (s1.moving \/ s1.rotating) /\ s1.state.auto_proseco
         THEN Logged(s1, Ev("emit", "StarView.update_proseco", NoneAtt, FALSE, ""))
         ELSE s1
    ELSE s

\* StarView.mousePressEvent
MousePressEvent(s, pos, left) ==
    IF left THEN [s EXCEPT !.moving = FALSE, !.rotating = FALSE, !.start = pos] ELSE s

\* ----------------------------------------------------------- StarView zoom
\* a scale that refuses nothing but a factor of zero
ViewScaleNoLimit(s, fn, fd) ==
    LET f == Rat(fn, fd) IN
    IF f.n = 0 THEN s
    ELSE LET scale == Rat(s.scale.n * f.n, s.scale.d * f.d)
         IN UpdateStars(Logged([s EXCEPT !.scale = scale],
                               Ev("apply", "QGraphicsView.scale", NoneAtt, FALSE, "")),
                        ViewRadius(scale))

\* StarView.scale(sx, sy) with sx = sy = fn/fd; a division by sx = 0 gives
\* inf, which is >= 15.  5 / 3600 / 15 = 1 / 10800.
ViewScale(s, fn, fd) ==
    LET f == Rat(fn, fd) IN
    IF \/ f.n = 0
       \/ (ViewW - 1) * s.scale.d * f.d >= 10800 * s.scale.n * f.n
       \/ (ViewH - 1) * s.scale.d * f.d >= 10800 * s.scale.n * f.n
    THEN s
    ELSE LET scale == Rat(s.scale.n * f.n, s.scale.d * f.d)
         IN UpdateStars(Logged([s EXCEPT !.scale = scale],
                               Ev("apply", "QGraphicsView.scale", NoneAtt, FALSE, "")),
                        ViewRadius(scale))

\* StarView.wheelEvent
WheelEvent(s, dy) ==
    IF 720 + dy < 0 THEN s
    ELSE SetVisibility(ViewScale(s, 720 + dy, 720))

\* StarView.resizeEvent, the first one
ResizeEvent(s) == [ViewScale(s, Min(ViewH, ViewW), 2000) EXCEPT !.shown = TRUE]

\* ------------------------------------------------------------ more actions
Show == ~v_shown /\ Unpack(ResizeEvent(Handler("resizeEvent", NoneAtt, FALSE, "")))

WheelDeltas == {-1080, -720, -360, 360}

Wheel(dy) ==
    /\ v_shown /\ v_start = NoStart /\ n_wheel < MaxWheel
    /\ Unpack([WheelEvent(Handler("wheelEvent", NoneAtt, FALSE, ToString(dy)), dy)
                  EXCEPT !.n_wheel = n_wheel + 1])

Positions == 0..MaxPos

MousePress(pos, left) ==
    /\ v_shown
    /\ Unpack(MousePressEvent(Handler("mousePressEvent", NoneAtt, left, ""), pos, left))

\* the drag stays on the modelled strip of sky
InSky(s) == s.att = NoneAtt \/ s.att \in Quats

MouseMove(pos, shift) ==
    /\ v_shown
    /\ LET s == MouseMoveEvent(Handler("mouseMoveEvent", NoneAtt, shift, ""), pos, shift)
       IN InSky(s) /\ Unpack(s)

\* a left button is released after it was pressed
MouseRelease(left) ==
    /\ v_shown
    /\ left => v_start # NoStart
    /\ Unpack(MouseReleaseEvent(Handler("mouseReleaseEvent", NoneAtt, left, ""), left))

\* StarView.contextMenuEvent, by the menu entry picked
MenuQuickConfig(name) ==
    /\ v_shown
    /\ Unpack(SetState(Handler("menu", NoneAtt, FALSE, name), name))

MenuShowFov ==
    /\ v_shown
    /\ Unpack(EnableFov(Handler("menu", NoneAtt, FALSE, "Show FOV"), ~sf_state.enable_fov))

MenuShowAltFov ==
    /\ v_shown
    /\ Unpack(EnableAlternateFov(Handler("menu", NoneAtt, FALSE, "Show Alt FOV"),
                                 ~sf_state.enable_alternate_fov))

MenuShowCatalog ==
    /\ v_shown
    /\ Unpack(EnableCatalog(Handler("menu", NoneAtt, FALSE, "Show Catalog"),
                            ~sf_state.enable_catalog))

MenuShowCentroids ==
    /\ v_shown
    /\ Unpack([Handler("menu", NoneAtt, FALSE, "Show Centroids")
                  EXCEPT !.cen.main_fov = ~sf_cen.main_fov])

MenuShowAltCentroids ==
    /\ v_shown
    /\ Unpack([Handler("menu", NoneAtt, FALSE, "Show Alt Centroids")
                  EXCEPT !.cen.alternate_fov = ~sf_cen.alternate_fov])

MenuAutoProseco ==
    /\ v_shown
    /\ LET checked == ~sf_state.auto_proseco
           s == [Handler("menu", NoneAtt, checked, "Auto-proseco")
                    EXCEPT !.state.auto_proseco = checked]
       IN Unpack(IF checked
                 THEN Logged(s, Ev("emit", "StarView.update_proseco", NoneAtt, FALSE, ""))
                 ELSE s)

\* QGraphicsScene.changed -> StarView.set_visibility
SceneChanged ==
    /\ v_shown
    /\ Unpack(SetVisibility(Handler("changed", NoneAtt, FALSE, "")))

\* ------------------------------------- the parameter editor and ProsecoData
\* The operations of a ProsecoParams editor and of the ProsecoData that is
\* given the editor's parameters, as in TelemetryView (where no slot is
\* connected to the editor's params_changed).
MaxCalls == 2           \* get_aca_catalog calls between two resets
IncludeIds == {1}       \* AGASC ids of the stars the user includes or excludes

H(name) == Ev("handler", name, NoneAtt, FALSE, "")
\* an ErrorMessage dialog is shown
Reported(who, title) == Ev("error", who, NoneAtt, FALSE, title)
\* an exception leaves the handler
Escapes(who, type) == Ev("escape", who, NoneAtt, FALSE, type)
Emits(signal) == Ev("emit", signal, NoneAtt, FALSE, "")

\* list.append and list.remove on an id list
ListAppend(l, x) == List(Append(l.v, x))
ListRemove(l, x) == List(SelectSeq(l.v, LAMBDA y : y # x))
Has(l, x) == \E i \in DOMAIN l.v : l.v[i] = x

\* what is left of a step that changes neither the editor nor ProsecoData
EdUnchanged == UNCHANGED <<ed_parameters, ed_text, alias>>

\* ProsecoData.set_parameters with the editor's dict, as the views call it
\* (`self.data.parameters = self.proseco_params_widget._parameters`): the
\* copy is shallow, so it holds the lists of the editor's dict
SetParameters ==
    /\ PdUnpack(PdReset(PdPack, ed_parameters))
    /\ alias' = TRUE
    /\ log' = <<H("set_parameters")>>
    /\ UNCHANGED <<ed_parameters, ed_text>>
    /\ UNCHANGED <<svars, fvars, avars, sf2, wvars>>

\* a read of ProsecoData.proseco (export_proseco_dialog: `if self.proseco`)
ReadProseco(o) ==
    /\ n_planner < MaxCalls
    /\ LET d == Proseco(PdPack, o)
       IN /\ PdUnpack([d EXCEPT !.out.proseco = d.ret])
          /\ log' = <<H("proseco")>> \o d.ext \o
                    (IF d.ret.kind = "raise" THEN <<Escapes("proseco", d.ret.type)>> ELSE <<>>)
    /\ EdUnchanged
    /\ UNCHANGED <<svars, fvars, avars, sf2, wvars>>

\* a read of ProsecoData.sparkles (export_sparkles_dialog: `if self.sparkles`)
ReadSparkles(o, o2) ==
    /\ n_planner < MaxCalls
    /\ LET d == Sparkles(PdPack, o, o2)
       IN /\ PdUnpack([d EXCEPT !.out.sparkles = d.ret])
          /\ log' = <<H("sparkles")>> \o d.ext \o
                    (IF d.ret.kind = "raise" THEN <<Escapes("sparkles", d.ret.type)>> ELSE <<>>)
    /\ EdUnchanged
    /\ UNCHANGED <<svars, fvars, avars, sf2, wvars>>

\* JsonEditor.set_value
SetValue(key, value, emit) ==
    /\ IF ed_parameters[key] = Missing
       THEN /\ UNCHANGED <<ed_parameters, ed_text>>
            /\ log' = <<H("set_value"), Escapes("set_value", "KeyError")>>
            /\ UNCHANGED sent
       ELSE IF ed_parameters[key] # value
       THEN /\ ed_parameters' = [ed_parameters EXCEPT ![key] = value]
            /\ ed_text' = Dumps(ed_parameters')
            /\ log' = <<H("set_value")>> \o (IF emit THEN <<Emits("params_changed")>> ELSE <<>>)
            /\ sent' = IF emit THEN ed_parameters' ELSE sent
       ELSE /\ UNCHANGED <<ed_parameters, ed_text, sent>>
            /\ log' = <<H("set_value")>>
    /\ UNCHANGED <<alias, pd_parameters, pd_proseco, pd_sparkles, pd_out, n_planner>>
    /\ UNCHANGED <<svars, fvars, avars, sf2, le, pan, ids, ct, tvs>>

\* ProsecoParams.include_star on the acq lists (only the include list is
\* modelled: include False and include None both remove the star from it).
\* The list is changed in place: ProsecoData's dict, a shallow copy, holds
\* the same list object while alias is true.
IncludeStar(star, include) ==
    /\ ed_parameters["include_ids_acq"].t = "list"
    /\ LET l == ed_parameters["include_ids_acq"]
           l1 == IF include
                 THEN (IF ~Has(l, star) THEN ListAppend(l, star) ELSE l)
                 ELSE (IF Has(l, star) THEN ListRemove(l, star) ELSE l)
       IN /\ ed_parameters' = [ed_parameters EXCEPT !["include_ids_acq"] = l1]
          /\ pd_parameters' = IF alias THEN [pd_parameters EXCEPT !["include_ids_acq"] = l1]
                              ELSE pd_parameters
    /\ log' = <<H("include_star")>>
    /\ UNCHANGED <<ed_text, alias, pd_proseco, pd_sparkles, pd_out, n_planner>>
    /\ UNCHANGED <<svars, fvars, avars, sf2, wvars>>

\* the user replaces the text of the editor
TypeText(text) ==
    /\ ed_text' = text
    /\ log' = <<H("type")>>
    /\ UNCHANGED <<ed_parameters, alias, pd_parameters, pd_proseco, pd_sparkles, pd_out, n_planner>>
    /\ UNCHANGED <<svars, fvars, avars, sf2, wvars>>

\* the user changes one member of the object in the editor (deletes it with Absent)
TypeMember(key, j) ==
    /\ ed_text.kind = "object"
    /\ ed_text' = [ed_text EXCEPT !.obj[key] = j]
    /\ log' = <<H("type")>>
    /\ UNCHANGED <<ed_parameters, alias, pd_parameters, pd_proseco, pd_sparkles, pd_out, n_planner>>
    /\ UNCHANGED <<svars, fvars, avars, sf2, wvars>>

\* JsonEditor.display_text (Escape, ctrl-Z)
DisplayText ==
    /\ ed_text' = Dumps(ed_parameters)
    /\ log' = <<H("display_text")>>
    /\ UNCHANGED <<ed_parameters, alias, pd_parameters, pd_proseco, pd_sparkles, pd_out, n_planner>>
    /\ UNCHANGED <<svars, fvars, avars, sf2, wvars>>

\* ProsecoParams.validate on what json.loads gave: "" if it returns, else the
\* type of the exception raised
Validate(text) ==
    IF text.kind # "object" THEN "TypeError"
    ELSE LET params == Loads(text)
         IN IF \E k \in {"date", "att", "detector"} : params[k] = Missing THEN "KeyError"
            ELSE IF \E k \in {"date", "att", "detector"} : params[k] = PyNone
            THEN "ValidationError"
            ELSE ""

\* JsonEditor.save (the Save button, ctrl-S)
Save ==
    /\ IF ed_text.kind = "invalid"
       THEN /\ log' = <<H("save"), Reported("save", "JSON Error")>>
            /\ UNCHANGED <<ed_parameters, alias, sent>>
       ELSE IF Validate(ed_text) = "ValidationError"
       THEN /\ log' = <<H("save"), Reported("save", "Validation Error")>>
            /\ UNCHANGED <<ed_parameters, alias, sent>>
       ELSE IF Validate(ed_text) # ""
       THEN /\ log' = <<H("save"), Escapes("save", Validate(ed_text))>>
            /\ UNCHANGED <<ed_parameters, alias, sent>>
       ELSE IF Loads(ed_text) = ed_parameters
       THEN /\ log' = <<H("save")>>
            /\ UNCHANGED <<ed_parameters, alias, sent>>
       ELSE /\ ed_parameters' = Loads(ed_text)
            /\ alias' = FALSE
            /\ log' = <<H("save"), Emits("params_changed")>>
            /\ sent' = default_params    \* emit(self.default_params())
    /\ UNCHANGED <<ed_text, pd_parameters, pd_proseco, pd_sparkles, pd_out, n_planner>>
    /\ UNCHANGED <<svars, fvars, avars, sf2, le, pan, ids, ct, tvs>>

\* JsonEditor.set_parameters (the setter of the `parameters` property): the
\* text is not redisplayed
EdSetParameters(parameters) ==
    /\ ed_parameters' = parameters
    /\ alias' = FALSE
    /\ sent' = ed_parameters'
    /\ log' = <<H("set_parameters"), Emits("params_changed")>>
    /\ UNCHANGED <<ed_text, pd_parameters, pd_proseco, pd_sparkles, pd_out, n_planner>>
    /\ UNCHANGED <<svars, fvars, avars, sf2, le, pan, ids, ct, tvs>>

\* the values the rest of the view writes to the editor (set_date,
\* set_attitude, __setitem__ of "detector")
Date1 == Str(1)
Date3 == Str(3)
Att1 == List(<<1, 0, 0>>)
Acis == Str(2)
SetValues == {<<"date", Date1>>, <<"date", Date3>>, <<"att", Att1>>, <<"detector", Acis>>}

\* ------------------------------------------------ find attitude, catalogs
\* the slots of the centroid table that are modelled (the code has eight)
Slots == {0, 1}

\* the scene with the catalog review, the catalog widget, the find-attitude
\* widget's centroid table and the star plot's catalog
PackFind ==
    Pack @@ [review |-> review_text, cat |-> cat_table, centroids |-> fa_centroids,
             catalog |-> sp_catalog]

UnpackFind(s) ==
    /\ UnpackScene(s)
    /\ review_text' = s.review
    /\ cat_table' = s.cat
    /\ fa_centroids' = s.centroids
    /\ sp_catalog' = s.catalog

\* StarPlot.set_catalog: set_time, show_catalog
StarPlotSetCatalog(s, catalog) ==
    IF s.catalog = catalog THEN s
    ELSE LET s1 == [SetTimeScene(s, catalog.date) EXCEPT !.catalog = catalog]
         IN IF s1.state.enable_catalog THEN [s1 EXCEPT !.vis.catalog = TRUE] ELSE s1

\* TelemetryView.set_catalog(catalog, source) when source is starcat_source
TvSetCatalog(s, catalog) ==
    StarPlotSetCatalog([s EXCEPT !.review = catalog.src, !.cat = catalog], catalog)

\* TelemetryView._attitude_found, the slot of found_attitude
AttitudeFound(s, solution) ==
    LET s1 == SetAttitudeSource(s, "Find Attitude")
        s2 == [s1 EXCEPT !.cat = solution]
    IN SetViewAttitude(s2, solution.att)

\* a variant of find_attitude that takes an empty list of solutions as a
\* solution at the attitude held before
FindAttitudeNoCheck(s, outcome, att_fit, matched) ==
    LET s1 == Logged(s, Ev("emit", "will_find_attitude", NoneAtt, FALSE, ""))
        s2 == AwSetAttitude([s1 EXCEPT !.review = ""], "solution", NoneAtt)
    IN IF outcome = "error"
       THEN Logged(s2, Ev("error", "find_attitude", NoneAtt, FALSE, "Error finding attitude"))
       ELSE LET catalog == [src |-> "Find Attitude", date |-> s2.time, att |-> att_fit]
                s3 == AwSetAttitude(s2, "solution", att_fit)
                s4 == [s3 EXCEPT !.centroids.enabled = matched]
                s5 == Logged(s4, Ev("emit", "found_attitude", att_fit, FALSE, ""))
            IN AttitudeFound(s5, catalog)

\* FindAttitudeWidget.find_attitude with the slots TelemetryView connects to
\* will_find_attitude (_reset) and found_attitude (_attitude_found).  The
\* outcome is what find_attitude_solutions does: it returns no solution
\* ("none"), it returns solutions, the first with attitude att_fit and the
\* matched slots ("solution"), or something raises ("error").
FindAttitude(s, outcome, att_fit, matched) ==
    LET s1 == Logged(s, Ev("emit", "will_find_attitude", NoneAtt, FALSE, ""))
        s2 == AwSetAttitude([s1 EXCEPT !.review = ""], "solution", NoneAtt)
    IN IF outcome = "none"
       THEN Logged(s2, Ev("error", "find_attitude", NoneAtt, FALSE, "NoSolutionError"))
       ELSE IF outcome = "error"
       THEN Logged(s2, Ev("error", "find_attitude", NoneAtt, FALSE, "Error finding attitude"))
       ELSE LET catalog == [src |-> "Find Attitude", date |-> s2.time, att |-> att_fit]
                s3 == AwSetAttitude(s2, "solution", att_fit)
                s4 == [s3 EXCEPT !.centroids.enabled = matched]
                s5 == Logged(s4, Ev("emit", "found_attitude", att_fit, FALSE, ""))
            IN AttitudeFound(s5, catalog)

\* TelemetryView._find_attitude (the "Find Attitude" source button)
TvFindAttitude(outcome, att_fit, matched) ==
    /\ matched \subseteq fa_centroids.enable
    /\ LET s == Logged(PackFind, Ev("handler", "_find_attitude", NoneAtt, FALSE, outcome))
       IN UnpackFind(FindAttitude([s EXCEPT !.cat = NoCatalog], outcome, att_fit, matched))
    /\ UNCHANGED <<pvars, fvars, sf2, wvars>>

\* the "Find Attitude" button of the FindAttitudeWidget
FaFindAttitude(outcome, att_fit, matched) ==
    /\ matched \subseteq fa_centroids.enable
    /\ LET s == Logged(PackFind, Ev("handler", "find_attitude", NoneAtt, FALSE, outcome))
       IN UnpackFind(FindAttitude(s, outcome, att_fit, matched))
    /\ UNCHANGED <<pvars, fvars, sf2, wvars>>

\* TelemetryView.set_centroids: the find-attitude widget's table (enabled is
\* ~IMGFID of the telemetry; the centroid items of the star plot and of the
\* catalog widget are not part of the model)
SetCentroids(enabled) ==
    /\ fa_centroids' = [enable |-> enabled, enabled |-> enabled]
    /\ log' = <<H("set_centroids")>>
    /\ UNCHANGED <<review_text, cat_table, sp_catalog>>
    /\ UNCHANGED <<svars, pvars, fvars, sf2, wvars>>

\* TelemetryView._get_catalog (the "Get Catalog" button).  The planner's
\* catalog has the date and the attitude of the parameters, which
\* TelemetryView.set_time and set_view_attitude keep equal to the star
\* field's time and to the view attitude.
GetCatalog(o) ==
    LET d == Proseco(PdReset(PdPack, ed_parameters), o)
        s == Logged(PackFind, Ev("handler", "_get_catalog", NoneAtt, FALSE, o))
        catalog == [src |-> "Proseco", date |-> s.time, att |-> s.aw["view"].attitude]
    IN /\ PdUnpack([d EXCEPT !.out.proseco = d.ret])
       /\ alias' = TRUE
       /\ IF d.ret.kind = "raise"
          THEN UnpackFind(Logged(s, Reported("_get_catalog", "Error")))
          ELSE UnpackFind(TvSetCatalog(s, catalog))
       /\ UNCHANGED <<ed_parameters, ed_text, fvars, sf2, wvars>>

\* ------------------------------------------------------ two StarField objects
\* The first StarField is the star plot's scene; the second is another
\* object of the class, on its own.  single_entry keeps the latch as an
\* attribute of the wrapper function, which is made once, when the class body
\* is executed: both objects' set_attitude use busy.set_attitude, and both
\* objects' set_state use busy.set_state.
PackTwo == Pack @@ [sf2 |-> sf2]

UnpackTwo(s) ==
    /\ UnpackScene(s)
    /\ sf2' = s.sf2
    /\ UNCHANGED <<pvars, fvars, avars, wvars>>

\* the second object as the receiver: its fields, with the latches and the log
Second(s) == s.sf2 @@ s

\* the state after a method of the second object returned r
Back(s, r) ==
    [s EXCEPT !.sf2 = [k \in DOMAIN s.sf2 |-> r[k]], !.busy = r.busy, !.log = r.log]

\* second.set_attitude(attitude), a call through the decorated function
SecondSetAttitude(s, attitude) ==
    LET s1 == Logged(s, Ev("call", "second", attitude, FALSE, "set_attitude"))
    IN Back(s1, SetAttitude(Second(s1), attitude, FALSE))

\* second.set_state(state_name)
SecondSetState(s, state_name) ==
    LET s1 == Logged(s, Ev("call", "second", NoneAtt, FALSE, "set_state"))
    IN Back(s1, SetState(Second(s1), state_name))

\* first.set_attitude(attitude, emit=True) with a slot connected to
\* first.attitude_changed, after the star plot's, that hands the first
\* object's attitude to the second: second.set_attitude(first.attitude)
LinkedSetAttitude(s, attitude) ==
    IF ~s.busy.set_attitude
    THEN LET s1 == Logged([s EXCEPT !.busy.set_attitude = TRUE],
                          Ev("call", "StarField.set_attitude", attitude, TRUE, ""))
             s2 == UpdateStars([s1 EXCEPT !.att = attitude], NoRadius)
             s3 == StarPlotAttitudeChanged(
                       Logged(s2, Ev("emit", "StarField.attitude_changed", NoneAtt, FALSE, "")))
             s4 == SetVisibility(SecondSetAttitude(s3, s3.att))
             s5 == IF QAny(s.att, attitude) THEN s4 ELSE s1
         IN Logged([s5 EXCEPT !.busy.set_attitude = FALSE],
                   Ev("return", "StarField.set_attitude", s5.att, TRUE, ""))
    ELSE Logged(s, Ev("drop", "StarField.set_attitude", attitude, TRUE, ""))

\* first.set_state(state_name) with a slot connected to first.state_changed
\* that sets the second object's mode: second.set_state(state_name)
LinkedSetState(s, state_name) ==
    IF ~s.busy.set_state
    THEN LET s1 == Logged([s EXCEPT !.busy.set_state = TRUE],
                          Ev("call", "StarField.set_state", NoneAtt,
                          state_name = s.state.name, state_name))
             s2 == SecondSetState(SetStateBody(s1, state_name), state_name)
         IN [s2 EXCEPT !.busy.set_state = FALSE]
    ELSE Logged(s, Ev("drop", "StarField.set_state", NoneAtt, FALSE, state_name))

FirstSetAttitude(a) ==
    UnpackTwo(LinkedSetAttitude(Logged(PackTwo, Ev("handler", "first.set_attitude", a, TRUE, "")), a))

FirstSetState(name) ==
    UnpackTwo(LinkedSetState(Logged(PackTwo, Ev("handler", "first.set_state", NoneAtt, FALSE, name)), name))

CallSecondSetAttitude(a) ==
    UnpackTwo(SecondSetAttitude(Logged(PackTwo, Ev("handler", "second.set_attitude", a, FALSE, "")), a))

CallSecondSetState(name) ==
    UnpackTwo(SecondSetState(Logged(PackTwo, Ev("handler", "second.set_state", NoneAtt, FALSE, name)), name))

\* second.set_time(t)
CallSecondSetTime(t) ==
    /\ sf2.time = None
    /\ LET s == Logged(PackTwo, Ev("handler", "second.set_time", NoneAtt, FALSE, t))
       IN UnpackTwo(Back(s, SetTimeScene(Second(s), t)))

\* ------------------------------------------------------------------ LineEdit
\* the texts of the line edit that are modelled
Texts == {"", "a", "b", "c"}

\* a _check_value that emits whenever it is asked to
CheckValueAlways(w, emit) ==
    [w |-> [w EXCEPT !.prev = w.text],
     out |-> IF emit THEN <<Ev("emit", "value_changed", NoneAtt, FALSE, w.text)>> ELSE <<>>]

\* LineEdit._check_value
CheckValue(w, emit) ==
    IF w.text # w.prev
    THEN [w |-> [w EXCEPT !.prev = w.text],
          out |-> IF emit THEN <<Ev("emit", "value_changed", NoneAtt, FALSE, w.text)>> ELSE <<>>]
    ELSE [w |-> w, out |-> <<>>]

\* the handler named who ran _check_value(emit) on the widget w
LeChecked(who, arg, w, emit) ==
    LET r == CheckValue(w, emit)
    IN /\ le' = [r.w EXCEPT !.value = IF r.out # <<>> THEN r.out[1].name ELSE @]
       /\ log' = <<Ev("handler", who, NoneAtt, emit, arg)>> \o r.out
       /\ UNCHANGED <<svars, pvars, fvars, avars, sf2, pan, ids, ct, sent, tvs>>

\* LineEdit.keyPressEvent with a key other than Return: QLineEdit edits the text
LeType(text) ==
    /\ text # le.text
    /\ le' = [le EXCEPT !.text = text]
    /\ log' = <<Ev("handler", "keyPressEvent", NoneAtt, FALSE, text)>>
    /\ UNCHANGED <<svars, pvars, fvars, avars, sf2, pan, ids, ct, sent, tvs>>

\* LineEdit.keyPressEvent with Key_Return
LeEnter == LeChecked("keyPressEvent", "Return", le, TRUE)

\* LineEdit.focusOutEvent
LeFocusOut == LeChecked("focusOutEvent", "", le, TRUE)

\* LineEdit.setText(text, emit)
LeSetText(text, emit) == LeChecked("setText", text, [le EXCEPT !.text = text], emit)

\* ------------------------------------------------------------------- pans
MaxPan == 1         \* pans of -MaxPan..MaxPan pixels in x and in y
MaxPans == 2        \* pans of one gesture

\* the starting attitudes
StartAttitudes == {Rot(<<x, y, z>>) : x \in 0..1, y \in 0..1, z \in 0..1}

\* StarField.set_attitude(a) on the star field that is panned
PanSetAttitude(a) ==
    /\ pan' = [att |-> a, start |-> a, undo |-> <<>>, back |-> FALSE]
    /\ log' = <<Ev("handler", "pan.set_attitude", NoneAtt, FALSE, "")>>
    /\ UNCHANGED <<svars, pvars, fvars, avars, sf2, le, ids, ct, sent, tvs>>

\* StarField.shift_scene(dx, dy), a pan of the gesture
PanShift(dx, dy) ==
    /\ ~pan.back
    /\ Len(pan.undo) < MaxPans
    /\ <<dx, dy>> # <<0, 0>>
    /\ pan' = [pan EXCEPT !.att = ShiftAttitude(@, dx, dy), !.undo = <<<<dx, dy>>>> \o @]
    /\ log' = <<Ev("handler", "pan.shift_scene", NoneAtt, FALSE, "")>>
    /\ UNCHANGED <<svars, pvars, fvars, avars, sf2, le, ids, ct, sent, tvs>>

\* StarField.shift_scene(-dx, -dy) for the last pan (dx, dy) not yet undone
PanBack ==
    /\ pan.undo # <<>>
    /\ pan' = [pan EXCEPT !.att = ShiftAttitude(@, -pan.undo[1][1], -pan.undo[1][2]),
                          !.undo = Tail(@), !.back = TRUE]
    /\ log' = <<Ev("handler", "pan.shift_scene", NoneAtt, TRUE, "")>>
    /\ UNCHANGED <<svars, pvars, fvars, avars, sf2, le, ids, ct, sent, tvs>>

\* --------------------------------------------- calls of the guarded methods
\* star_field.set_attitude(attitude, emit), a call from outside any handler
StarFieldSetAttitude(a, emit) ==
    Unpack(SetAttitude(Handler("StarField.set_attitude", a, emit, ""), a, emit))

\* star_field.set_state(state_name) (the state setter), with a name that
\* may not be one of star_field.states
StarFieldSetState(name) ==
    Unpack(SetState(Handler("StarField.set_state", NoneAtt, FALSE, name), name))

\* ------------------------------------------- including and excluding stars
\* StarView.contextMenuEvent on a star, the entry "include <type>" or
\* "exclude <type>" checked or unchecked: the star item's flag is set and
\* star_included(id, type, flag) is emitted, which TelemetryView and
\* ProsecoView connect to ProsecoParams.include_star
MenuIncludeStar(star, type, action, checked) ==
    LET include == IF ~checked THEN "None" ELSE IF action = "include" THEN "True" ELSE "False"
    IN /\ ids' = [lists |-> IncludeStarIn(ids.lists, star, type, include),
                  included |-> [ids.included EXCEPT ![star][type] = include],
                  call |-> [star |-> star, type |-> type, include |-> include]]
       /\ log' = <<Ev("handler", "contextMenuEvent", NoneAtt, checked, action),
                   Ev("emit", "star_included", NoneAtt, checked, type)>>
       /\ UNCHANGED <<svars, pvars, fvars, avars, sf2, le, pan, ct, sent, tvs>>

\* ------------------------------------------------- a CentroidTable's methods
CtSetCentroids(centroids) ==
    /\ ct' = CtSetCentroidsIn(ct, centroids)
    /\ log' = <<Ev("handler", "CentroidTable.set_centroids", NoneAtt, centroids.match, "")>>
    /\ UNCHANGED <<svars, pvars, fvars, avars, sf2, le, pan, ids, sent, tvs>>

\* CentroidTable.reset
CtReset ==
    /\ ct' = NewCentroidTable
    /\ log' = <<Ev("handler", "CentroidTable.reset", NoneAtt, FALSE, "")>>
    /\ UNCHANGED <<svars, pvars, fvars, avars, sf2, le, pan, ids, sent, tvs>>

\* the user clicks the checkbox of a row: stateChanged calls
\* CentroidTable.enable_slot(row, checked)
CtClickCheckbox(slot) ==
    LET enable == ~ct.shown[slot].enable
        c1 == [ct EXCEPT !.shown[slot].enable = enable]
    IN /\ IF c1.table[slot].enable = enable
          THEN /\ ct' = c1
               /\ log' = <<Ev("handler", "CentroidTable.enable_slot", NoneAtt, enable, "")>>
          ELSE /\ ct' = [c1 EXCEPT !.table[slot].enable = enable]
               /\ log' = <<Ev("handler", "CentroidTable.enable_slot", NoneAtt, enable, ""),
                           Ev("emit", "slot_enabled", NoneAtt, enable, "")>>
       /\ UNCHANGED <<svars, pvars, fvars, avars, sf2, le, pan, ids, sent, tvs>>

\* -------------------------------------------------------------- ProsecoView
\* The view's star plot, catalog review, attitude widget ("view"), editor and
\* ProsecoData in one record.
PackView ==
    PackFind @@ [pd |-> PdPack, ed |-> ed_parameters, text |-> ed_text, sent |-> sent]

UnpackView(r) ==
    /\ UnpackFind(r)
    /\ PdUnpack(r.pd)
    /\ ed_parameters' = r.ed
    /\ ed_text' = r.text
    /\ sent' = r.sent

\* Quat(attitude).equatorial.tolist() and Quat(self["att"])
AttValue(a) == List(<<a.ra, 0, a.roll>>)
AttOf(v) == IF v.t = "list" THEN [ra |-> v.v[1], roll |-> v.v[3]] ELSE NoneAtt

\* CxoTime(self["date"]) of the two dates that are modelled
TimeOf(v) == IF v = Date1 THEN Epoch0 ELSE Epoch1

\* ProsecoView._get_catalog; o is the outcome of get_aca_catalog
PvGetCatalog(r, o, interactive) ==
    LET d == Proseco(PdReset(r.pd, r.ed), o)
        r1 == [r EXCEPT !.pd = [d EXCEPT !.out.proseco = d.ret, !.ext = <<>>],
                        !.log = @ \o d.ext]
        catalog == [src |-> "Proseco", date |-> TimeOf(r.ed["date"]),
                    att |-> AttOf(r.ed["att"])]
    IN IF d.ret.kind = "raise"
       THEN (IF interactive THEN Logged(r1, Reported("_get_catalog", "Error")) ELSE r1)
       ELSE IF d.ret.kind = "catalog"
       THEN StarPlotSetCatalog([r1 EXCEPT !.review = catalog.src], catalog)
       ELSE r1

\* ProsecoView._values_changed without its auto-proseco call
PvValuesChangedNoPlanner(r) ==
    LET att == AttOf(r.ed["att"])
        r1 == SetTimeScene(r, TimeOf(r.ed["date"]))
        r2 == SetAttitude(r1, att, FALSE)
    IN AwSetAttitude(r2, "view", att)

\* ProsecoView._values_changed, the slot of the editor's params_changed
PvValuesChanged(r, o) ==
    LET att == AttOf(r.ed["att"])
        r1 == SetTimeScene(r, TimeOf(r.ed["date"]))
        r2 == SetAttitude(r1, att, FALSE)
        r3 == AwSetAttitude(r2, "view", att)
    IN IF r3.state.auto_proseco THEN PvGetCatalog(r3, o, FALSE) ELSE r3

\* JsonEditor.set_value in the view: params_changed runs _values_changed
PvSetValue(r, key, value, emit, o) ==
    IF r.ed[key] # value
    THEN LET ed == [r.ed EXCEPT ![key] = value]
             r1 == [r EXCEPT !.ed = ed, !.text = Dumps(ed)]
         IN IF emit
            THEN PvValuesChanged(Logged([r1 EXCEPT !.sent = ed], Emits("params_changed")), o)
            ELSE r1
    ELSE r

\* ProsecoParams.set_attitude
PvSetAttitude(r, attitude, emit, o) ==
    IF attitude = NoneAtt THEN r ELSE PvSetValue(r, "att", AttValue(attitude), emit, o)

\* the view has been constructed: set_parameters has set the date
Built == ed_parameters["date"] # PyNone

\* ProsecoView.__init__: the state it leaves (the star field in the mode
\* "Proseco", the parameters of set_parameters in the editor and shown by the
\* widgets), then its last statement, _auto_proseco()
PvInit(a, o) ==
    /\ ~Built
    /\ LET r0 == Logged(PackView, Ev("handler", "ProsecoView.__init__", NoneAtt, FALSE, o))
           ed == [r0.ed EXCEPT !["date"] = Date1, !["att"] = AttValue(a),
                               !["detector"] = Acis]
           r1 == SetState(r0, "Proseco")
           r2 == PvValuesChangedNoPlanner([r1 EXCEPT !.ed = ed, !.text = Dumps(ed), !.sent = ed])
       IN UnpackView(PvGetCatalog(r2, o, FALSE))
    /\ alias' = TRUE
    /\ UNCHANGED <<fvars, sf2, le, pan, ids, ct, tvs>>

\* the user edits the attitude in the attitude widget: _set_attitude stores
\* it and emits attitude_changed, whose slots are, in the order of their
\* connection, proseco_params_widget.set_attitude and _auto_proseco
PvEditAttitude(a, o1, o2) ==
    /\ Built
    /\ QAny(a, aw["view"].attitude)
    /\ LET r0 == Logged(PackView, Ev("handler", "attitude_changed", a, FALSE, ""))
           r1 == AwStore(r0, "view", a)
           r2 == PvSetAttitude(r1, a, TRUE, o1)
       IN UnpackView(PvGetCatalog(r2, o2, FALSE))
    /\ alias' = TRUE
    /\ UNCHANGED <<fvars, sf2, le, pan, ids, ct, tvs>>

\* the user edits the date: date_edit.value_changed -> set_date
PvEditDate(date, o) ==
    /\ Built
    /\ UnpackView(PvSetValue(Logged(PackView, Ev("handler", "value_changed", NoneAtt, FALSE, "")),
                             "date", date, TRUE, o))
    /\ alias' = (alias \/ sf_state.auto_proseco)
    /\ UNCHANGED <<fvars, sf2, le, pan, ids, ct, tvs>>

\* the context menu's Auto-proseco entry: update_proseco -> _auto_proseco
PvMenuAutoProseco(o) ==
    /\ Built
    /\ LET checked == ~sf_state.auto_proseco
           r == [Logged(PackView, Ev("handler", "menu", NoneAtt, checked, "Auto-proseco"))
                    EXCEPT !.state.auto_proseco = checked]
       IN /\ UnpackView(IF checked
                        THEN PvGetCatalog(Logged(r, Ev("emit", "StarView.update_proseco",
                                                       NoneAtt, FALSE, "")), o, FALSE)
                        ELSE r)
          /\ alias' = (alias \/ checked)
    /\ UNCHANGED <<fvars, sf2, le, pan, ids, ct, tvs>>

\* ----------------------------------------- slot enable flags, TelemetryView
\* A signal calls its slots one after the other, each to completion, before
\* emit returns: the calls due are kept as a stack, and one step makes one
\* call.  The user acts when no call is pending.
Call(fn, slot, enable) == [fn |-> fn, slot |-> slot, enable |-> enable]

\* CentroidTable.enable_slot on the table `tab`; its slot_enabled is
\* forwarded by the owning widget and connected to star_plot.include_slot
EnableSlot(v, tab, shown, slot, enable, rest) ==
    IF v[tab][slot] = enable THEN [v EXCEPT !.stack = rest]
    ELSE [v EXCEPT ![tab][slot] = enable, ![shown][slot] = enable,
                   !.stack = <<Call("StarPlot.include_slot", slot, enable)>> \o rest]

\* StarView.include_slot; slot_included is connected to
\* find_attitude_widget.enable_slot, then to catalog_widget.enable_slot
IncludeSlot(v, slot, include, rest) ==
    LET exclude == ~include
    IN IF v.fov[slot] = exclude /\ v.alt[slot] = exclude THEN [v EXCEPT !.stack = rest]
       ELSE [v EXCEPT !.fov[slot] = exclude, !.alt[slot] = exclude,
                      !.stack = <<Call("FindAttitudeWidget.enable_slot", slot, include),
                                  Call("CatalogWidget.enable_slot", slot, include)>> \o rest]

\* the call on top of the stack is made
SlotCall ==
    /\ tvs.stack # <<>>
    /\ LET c == Head(tvs.stack)
           rest == Tail(tvs.stack)
       IN /\ tvs' = CASE c.fn = "FindAttitudeWidget.enable_slot" ->
                            EnableSlot(tvs, "fa", "fa_shown", c.slot, c.enable, rest)
                      [] c.fn = "CatalogWidget.enable_slot" ->
                            EnableSlot(tvs, "cw", "cw_shown", c.slot, c.enable, rest)
                      [] OTHER -> IncludeSlot(tvs, c.slot, c.enable, rest)
          /\ log' = <<Ev("call", c.fn, NoneAtt, c.enable, "")>>
    /\ UNCHANGED <<svars, pvars, fvars, avars, sf2, le, pan, ids, ct, sent>>

\* the user clicks the checkbox of a row of the find-attitude centroid table
\* (w = "fa") or of the tracking catalog table (w = "cw"): stateChanged
\* calls enable_slot(row, checked)
ClickEnable(w, slot) ==
    /\ tvs.stack = <<>>
    /\ LET shown == IF w = "fa" THEN "fa_shown" ELSE "cw_shown"
           fn == IF w = "fa" THEN "FindAttitudeWidget.enable_slot"
                 ELSE "CatalogWidget.enable_slot"
           enable == ~tvs[shown][slot]
       IN tvs' = [tvs EXCEPT ![shown][slot] = enable,
                             !.stack = <<Call(fn, slot, enable)>>,
                             !.toggle = [slot |-> slot, enable |-> enable]]
    /\ log' = <<Ev("handler", "stateChanged", NoneAtt, ~tvs[IF w = "fa" THEN "fa_shown" ELSE "cw_shown"][slot], w)>>
    /\ UNCHANGED <<svars, pvars, fvars, avars, sf2, le, pan, ids, ct, sent>>

\* the star plot's context menu on a centroid: "include slot", checked when
\* the centroid is not excluded, toggled by the click
MenuIncludeSlot(slot) ==
    /\ tvs.stack = <<>>
    /\ LET checked == tvs.fov[slot]
       IN /\ tvs' = [tvs EXCEPT !.stack = <<Call("StarPlot.include_slot", slot, checked)>>,
                                !.toggle = [slot |-> slot, enable |-> checked]]
          /\ log' = <<Ev("handler", "menu", NoneAtt, checked, "include slot")>>
    /\ UNCHANGED <<svars, pvars, fvars, avars, sf2, le, pan, ids, ct, sent>>

\* the "Update Params" button: FindAttitudeWidget.update_params resets the
\* centroid table (the checkboxes' stateChanged finds the flags already set)
UpdateParams ==
    /\ tvs.stack = <<>>
    /\ tvs' = [tvs EXCEPT !.fa = AllFalse, !.fa_shown = AllFalse, !.toggle = NoToggle]
    /\ log' = <<Ev("handler", "update_params", NoneAtt, FALSE, "")>>
    /\ UNCHANGED <<svars, pvars, fvars, avars, sf2, le, pan, ids, ct, sent>>

\* the "Find Attitude" button: TelemetryView._find_attitude resets the
\* catalog widget, then find_attitude; with a solution the centroid table is
\* set anew (enabled: the slots matched) and _attitude_found sets the
\* catalog widget's table from the solution's catalog (its rows are "GUI")
FindAttitudeButton(found, matched) ==
    /\ tvs.stack = <<>>
    /\ LET flags == [slot \in TableSlots |-> slot \in matched]
       IN tvs' = IF found
                 THEN [tvs EXCEPT !.fa = flags, !.fa_shown = flags,
                                  !.cw = flags, !.cw_shown = flags, !.toggle = NoToggle]
                 ELSE [tvs EXCEPT !.cw = AllFalse, !.cw_shown = AllFalse, !.toggle = NoToggle]
    /\ log' = <<Ev("handler", "_find_attitude", NoneAtt, found, "")>>
    /\ UNCHANGED <<svars, pvars, fvars, avars, sf2, le, pan, ids, ct, sent>>

\* ----------------------------------------------------------- specifications
Quat0 == [ra |-> 1, roll |-> 0]
Quat1 == [ra |-> MaxRa - 2, roll |-> 0]
\* TelemetryView: the attitude holders, their notifications and drags
Next ==
    \/ Show
    \/ SetTime(Epoch0)
    \/ SetOnboardAttitude(Quat0)
    \/ \E a \in {Quat0, Quat1, NoneAtt}, emit \in BOOLEAN : EditViewAttitude(a, emit)
    \/ \E src \in {"Telemetry", "User"} : ClickAttitudeSource(src)
    \/ \E pos \in Positions : MousePress(pos, TRUE)
    \/ \E pos \in Positions : MouseMove(pos, FALSE)
    \/ MouseRelease(TRUE)

Spec == Init /\ [][Next]_vars

\* the star field model: epoch, attitude, pans and zoom
NextStars ==
    \/ Show
    \/ \E t \in Epochs : SetTime(t)
    \/ SetOnboardAttitude(Quat0)
    \/ \E pos \in Positions : MousePress(pos, TRUE)
    \/ \E pos \in Positions : MouseMove(pos, FALSE)
    \/ MouseRelease(TRUE)
    \/ \E dy \in WheelDeltas : Wheel(dy)

SpecStars == Init /\ [][NextStars]_vars

\* the display state: modes, overlay toggles and the outlines' visibility
NextMode ==
    \/ Show
    \/ SetTime(Epoch0)
    \/ SetOnboardAttitude(Quat0)
    \/ \E name \in StateNames : MenuQuickConfig(name)
    \/ MenuShowFov
    \/ MenuShowAltFov
    \/ MenuShowCatalog
    \/ MenuShowCentroids
    \/ MenuShowAltCentroids
    \/ MenuAutoProseco
    \/ SceneChanged
    \/ \E dy \in WheelDeltas : Wheel(dy)

SpecMode == Init /\ [][NextMode]_vars

\* pointer gestures on the view
NextGesture ==
    \/ Show
    \/ SetOnboardAttitude(Quat0)
    \/ \E name \in StateNames : MenuQuickConfig(name)
    \/ MenuAutoProseco
    \/ \E pos \in Positions, left \in BOOLEAN : MousePress(pos, left)
    \/ \E pos \in Positions, shift \in BOOLEAN : MouseMove(pos, shift)
    \/ \E left \in BOOLEAN : MouseRelease(left)

SpecGesture == Init /\ [][NextGesture]_vars

\* ProsecoData and the changes of the editor's parameters
NextProseco ==
    \/ SetParameters
    \/ \E o \in Outcomes : ReadProseco(o)
    \/ \E o \in Outcomes, o2 \in Outcomes : ReadSparkles(o, o2)
    \/ \E kv \in SetValues \ {<<"date", Date3>>} : SetValue(kv[1], kv[2], FALSE)
    \/ \E star \in IncludeIds, include \in BOOLEAN : IncludeStar(star, include)
    \/ TypeMember("date", DumpVal(Date3))
    \/ Save

SpecProseco == Init /\ [][NextProseco]_vars

\* the editor's text: typing, saving, discarding
NextEditor ==
    \/ \E kv \in SetValues \cup {<<"dither_acq", Tuple(<<8, 8>>)>>}, emit \in BOOLEAN :
           SetValue(kv[1], kv[2], emit)
    \/ \E text \in {InvalidText, ArrayText, NumberText} : TypeText(text)
    \/ \E k \in {"date", "att", "detector"}, j \in {Absent, JNull} : TypeMember(k, j)
    \/ TypeMember("date", DumpVal(Date3))
    \/ DisplayText
    \/ Save

SpecEditor == Init /\ [][NextEditor]_vars

\* the parameter files: entries are written, parameters are looked up
NextFiles ==
    \/ \E r \in Reps, n \in 1..MaxObsid : AddEntry(Obsid(r, n))
    \/ \E n \in 1..MaxObsid : GetParametersFromYoshi(Obsid("int", n))
    \/ \E n \in 1..MaxObsid : GetParametersFromPickle(Obsid("int", n))

SpecFiles == Init /\ [][NextFiles]_vars

\* TelemetryView: finding the attitude from the centroids, and the catalogs
NextFind ==
    \/ SetTime(Epoch0)
    \/ SetOnboardAttitude(Quat0)
    \/ \E o \in {"ok", "ValueError"} : GetCatalog(o)
    \/ \E enabled \in SUBSET Slots : SetCentroids(enabled)
    \/ \E outcome \in {"none", "solution", "error"}, matched \in SUBSET Slots :
           TvFindAttitude(outcome, Quat1, matched)
    \/ \E outcome \in {"none", "solution", "error"}, matched \in SUBSET Slots :
           FaFindAttitude(outcome, Quat1, matched)

SpecFind == Init /\ [][NextFind]_vars

\* two StarField objects in one process, the second following the first
NextTwo ==
    \/ SetTime(Epoch0)
    \/ CallSecondSetTime(Epoch0)
    \/ \E a \in {Quat0, Quat1} : FirstSetAttitude(a)
    \/ \E name \in StateNames : FirstSetState(name)
    \/ \E a \in {Quat0, Quat1} : CallSecondSetAttitude(a)
    \/ \E name \in StateNames : CallSecondSetState(name)

SpecTwo == Init /\ [][NextTwo]_vars

\* the star field before and after it has an attitude and an epoch
NextUnset ==
    \/ Show
    \/ SetTime(Epoch0)
    \/ SetOnboardAttitude(Quat0)
    \/ \E pos \in Positions : MousePress(pos, TRUE)
    \/ \E pos \in Positions, shift \in BOOLEAN : MouseMove(pos, shift)
    \/ MouseRelease(TRUE)
    \/ Wheel(360)

SpecUnset == Init /\ [][NextUnset]_vars

\* a LineEdit
NextLineEdit ==
    \/ \E text \in Texts : LeType(text)
    \/ LeEnter
    \/ LeFocusOut
    \/ \E text \in Texts, emit \in BOOLEAN : LeSetText(text, emit)

SpecLineEdit == Init /\ [][NextLineEdit]_vars

\* pans of a star field and the pans that undo them
NextPan ==
    \/ \E a \in StartAttitudes : PanSetAttitude(a)
    \/ \E dx \in -MaxPan..MaxPan, dy \in -MaxPan..MaxPan : PanShift(dx, dy)
    \/ PanBack

SpecPan == Init /\ [][NextPan]_vars

\* direct calls of the methods guarded by single_entry
NextLatch ==
    \/ SetTime(Epoch0)
    \/ \E a \in {Quat0, Quat1, NoneAtt, BadAtt}, emit \in BOOLEAN : StarFieldSetAttitude(a, emit)
    \/ \E name \in StateNames \cup {"Unknown"} : StarFieldSetState(name)

SpecLatch == Init /\ [][NextLatch]_vars

\* TelemetryView: every operation that writes to the star field's state
NextView ==
    \/ Show
    \/ SetOnboardAttitude(Quat0)
    \/ EditViewAttitude(Quat1, TRUE)
    \/ \E src \in {"Telemetry", "User"} : ClickAttitudeSource(src)
    \/ \E name \in StateNames : MenuQuickConfig(name)
    \/ MenuShowCatalog
    \/ MenuAutoProseco
    \/ MousePress(0, TRUE)
    \/ \E pos \in Positions : MouseMove(pos, FALSE)
    \/ MouseRelease(TRUE)

SpecView == Init /\ [][NextView]_vars

\* stars included and excluded from the context menu of the star plot
NextInclude ==
    \E star \in StarIds, type \in IdTypes, action \in {"include", "exclude"}, checked \in BOOLEAN :
        MenuIncludeStar(star, type, action, checked)

SpecInclude == Init /\ [][NextInclude]_vars

\* a CentroidTable
NextTable ==
    \/ \E centroids \in Centroids : CtSetCentroids(centroids)
    \/ CtReset
    \/ \E slot \in TableSlots : CtClickCheckbox(slot)

SpecTable == Init /\ [][NextTable]_vars

\* the editor with its three emitting methods
NextEmit ==
    \/ \E kv \in SetValues, emit \in BOOLEAN : SetValue(kv[1], kv[2], emit)
    \/ TypeMember("date", DumpVal(Date3))
    \/ TypeMember("detector", DumpVal(Acis))
    \/ DisplayText
    \/ Save
    \/ \E v \in {Date1, Date3} : EdSetParameters([default_params EXCEPT !["date"] = v])

SpecEmit == Init /\ [][NextEmit]_vars

\* ProsecoView: edits of the attitude and of the date, the auto-proseco mode
NextProsecoView ==
    \/ \E o \in Outcomes : PvInit(Quat0, o)
    \/ \E a \in {Quat0, Quat1}, o1 \in Outcomes, o2 \in Outcomes : PvEditAttitude(a, o1, o2)
    \/ \E date \in {Date1, Date3}, o \in Outcomes : PvEditDate(date, o)
    \/ \E o \in Outcomes : PvMenuAutoProseco(o)

SpecProsecoView == Init /\ [][NextProsecoView]_vars

\* TelemetryView: the enable flags of the slots
NextSlots ==
    \/ SlotCall
    \/ \E w \in {"fa", "cw"}, slot \in TableSlots : ClickEnable(w, slot)
    \/ \E slot \in TableSlots : MenuIncludeSlot(slot)
    \/ UpdateParams
    \/ \E found \in BOOLEAN, matched \in SUBSET TableSlots : FindAttitudeButton(found, matched)

SpecSlots == Init /\ [][NextSlots]_vars

\* the calls due are made
FairSlots == SpecSlots /\ WF_vars(SlotCall)

\* ------------------------------------------------------------------ claims
\* the entries of a log with a given kind and origin
Entries(l, ev, who) == {i \in DOMAIN l : l[i].ev = ev /\ l[i].who = who}

\* some quaternion component of a differs from b's, or only one of them is held
Differs(a, b) ==
    \/ (a = NoneAtt) # (b = NoneAtt)
    \/ a # NoneAtt /\ b # NoneAtt /\ \E k \in 1..4 : QuatQ(a)[k] # QuatQ(b)[k]

\* the handler that led to the current state
IsHandler(l, who) == Len(l) > 0 /\ l[1].ev = "handler" /\ l[1].who = who

\* StarField.set_attitude(a, emit=True), a not None, in the step taken
C1_StarField ==
    \A i \in Entries(log', "call", "StarField.set_attitude") :
        (log'[i].flag /\ log'[i].att # NoneAtt) =>
            LET a == log'[i].att
                emits == Entries(log', "emit", "StarField.attitude_changed")
                reads == Entries(log', "read", "StarPlot._attitude_changed")
            IN IF Differs(a, sf_attitude)
               THEN /\ sf_attitude' = a
                    /\ Cardinality(emits) = 1
                    /\ reads # {}
                    /\ \A j \in reads : j > i /\ log'[j].att = a
               ELSE /\ sf_attitude' = sf_attitude
                    /\ emits = {}

\* AttitudeWidget._set_attitude(a, emit=True), a not None, in the step taken
C1_Widget ==
    (IsHandler(log', "_set_attitude") /\ log'[1].flag /\ log'[1].att # NoneAtt) =>
        LET a == log'[1].att
            w == log'[1].name
            emits == Entries(log', "emit", "AttitudeWidget.attitude_changed")
        IN IF Differs(a, aw[w].attitude)
           THEN /\ aw'[w].attitude = a
                /\ Cardinality(emits) = 1
                /\ \A j \in emits : log'[j].att = a /\ log'[j].name = w
           ELSE /\ aw'[w].attitude = aw[w].attitude
                /\ emits = {}

\* C1: set_attitude(a, emit=True) with a not None on either holder: when a
\* component of a differs from the held attitude's, or none is held, the
\* holder stores a, emits attitude_changed exactly once and the observer of
\* the emission reads a; when all four components are equal the held
\* attitude is unchanged and nothing is emitted.
C1_SetAttitudeStoresAndEmitsOnce == [][C1_StarField /\ C1_Widget]_vars

\* C1 witness: a drag made the star field store a new attitude and emit
C1_Witness ==
    /\ IsHandler(log, "mouseMoveEvent")
    /\ \E i \in Entries(log, "call", "StarField.set_attitude") :
           log[i].flag /\ log[i].att = sf_attitude
    /\ Entries(log, "emit", "StarField.attitude_changed") # {}
    /\ Entries(log, "read", "StarPlot._attitude_changed") # {}

\* C2: after AttitudeWidget._set_attitude(None) the widget holds no attitude,
\* and with emit=True exactly one attitude_cleared and no attitude_changed
\* is emitted, whatever was held before.
C2_ClearHoldsNone ==
    (IsHandler(log, "_set_attitude") /\ log[1].att = NoneAtt) =>
        /\ aw[log[1].name].attitude = NoneAtt
        /\ log[1].flag =>
              /\ Cardinality(Entries(log, "emit", "AttitudeWidget.attitude_cleared")) = 1
              /\ Entries(log, "emit", "AttitudeWidget.attitude_changed") = {}

\* a set_attitude body is entered at i and has not returned before j
Inside(l, i, j) ==
    /\ l[i].ev = "call" /\ l[i].who = "StarField.set_attitude" /\ i < j
    /\ \A k \in (i + 1)..(j - 1) :
           ~(l[k].ev = "return" /\ l[k].who = "StarField.set_attitude")

\* C3: a StarField.set_attitude call made by an observer while a call on the
\* star field is in progress does not enter the function (it is dropped:
\* no second entry, no emission of its own), and when the outer call returns
\* the held attitude is the outer call's argument; the handler ends with the
\* latch free, the attitude the outer argument and the positions its.
C3_NestedCallDropped ==
    /\ \A i, j \in DOMAIN log :
          Inside(log, i, j) =>
              /\ ~(log[j].ev = "call" /\ log[j].who = "StarField.set_attitude")
              /\ (log[j].ev = "return" /\ log[j].who = "StarField.set_attitude") =>
                     log[j].att = log[i].att
    /\ \A j \in Entries(log, "drop", "StarField.set_attitude") :
          /\ \E i \in DOMAIN log : Inside(log, i, j)
          /\ Cardinality(Entries(log, "call", "StarField.set_attitude")) = 1
          /\ Cardinality(Entries(log, "emit", "StarField.attitude_changed")) = 1
          /\ \A i \in Entries(log, "call", "StarField.set_attitude") :
                sf_attitude = log[i].att
          /\ sf_pos = {[id |-> st.id, x |-> st.pos - sf_attitude.ra,
                        roll |-> sf_attitude.roll] : st \in sf_stars.rows}
    /\ ~busy.set_attitude

\* C3 witness: a drag whose notification called set_attitude again, with
\* stars on the scene
C3_Witness ==
    /\ Entries(log, "drop", "StarField.set_attitude") # {}
    /\ sf_pos # {}

\* the values _COMMON_STATES gives the toggles of a mode
ModeDef(name) ==
    CASE name = "Telemetry" ->
           [name |-> name, onboard_attitude_slot |-> "attitude", enable_fov |-> TRUE,
            enable_alternate_fov |-> FALSE, enable_catalog |-> FALSE,
            enable_centroids |-> TRUE, enable_alternate_fov_centroids |-> FALSE,
            auto_proseco |-> FALSE]
      [] name = "Proseco" ->
           [name |-> name, onboard_attitude_slot |-> None, enable_fov |-> TRUE,
            enable_alternate_fov |-> FALSE, enable_catalog |-> TRUE,
            enable_centroids |-> FALSE, enable_alternate_fov_centroids |-> FALSE,
            auto_proseco |-> TRUE]
      [] name = "Alternate FOV" ->
           [name |-> name, onboard_attitude_slot |-> "alternate_attitude",
            enable_fov |-> TRUE, enable_alternate_fov |-> TRUE, enable_catalog |-> FALSE,
            enable_centroids |-> FALSE, enable_alternate_fov_centroids |-> TRUE,
            auto_proseco |-> FALSE]

\* the step taken is set_state(name), picked in the Quick Config menu
IsSetState(l, name) == IsHandler(l, "menu") /\ l[1].name = name

\* the toggles and the items' visibility are those of the mode's definition
AtModeDef(state, vis, cen, name) ==
    /\ state = ModeDef(name)
    /\ vis = [main_fov |-> ModeDef(name).enable_fov,
              alternate_fov |-> ModeDef(name).enable_alternate_fov,
              catalog |-> ModeDef(name).enable_catalog]
    /\ cen = [main_fov |-> ModeDef(name).enable_centroids,
              alternate_fov |-> ModeDef(name).enable_alternate_fov_centroids]

\* state_changed is emitted exactly once in the step taken, carrying name
EmitsStateChangedOnce(l, name) ==
    /\ Cardinality(Entries(l, "emit", "StarField.state_changed")) = 1
    /\ \A j \in Entries(l, "emit", "StarField.state_changed") : l[j].name = name

C5_NewModeAppliesAllToggles ==
    [][\A name \in StateNames :
          (IsSetState(log', name) /\ name # sf_state.name) =>
              /\ AtModeDef(sf_state', sf_vis', sf_cen', name)
              /\ EmitsStateChangedOnce(log', name)]_vars

\* C5 witness: a mode other than the initial one is active, just selected,
\* with the toggles of its definition
C5_Witness ==
    /\ IsSetState(log, "Alternate FOV")
    /\ sf_state.name = "Alternate FOV"
    /\ sf_vis.alternate_fov /\ sf_cen.alternate_fov /\ ~sf_cen.main_fov

\* the scene operations applied in the step taken
Applied(l) ==
    {l[i].who : i \in {j \in DOMAIN l : l[j].ev = "apply"}} \cap {"shift_scene", "rotate_scene"}

\* C6: between a left-button press and its release at most one of _moving
\* and _rotating is set, and the kind of gesture chosen by the first move
\* (pan or rotate) is the kind every later move of the gesture applies,
\* whatever the Shift state of the later moves.
C6_OneGestureKind ==
    [][/\ v_start' # NoStart => ~(v_moving' /\ v_rotating')
       /\ (IsHandler(log', "mouseMoveEvent") /\ v_start # NoStart) =>
             /\ (v_moving /\ ~v_rotating) => Applied(log') = {"shift_scene"}
             /\ (v_rotating /\ ~v_moving) => Applied(log') = {"rotate_scene"}]_vars

\* update_proseco emissions in a log
UpdateProseco(l) == Entries(l, "emit", "StarView.update_proseco")

\* C7: with auto_proseco set, a press-move-release gesture that panned or
\* rotated emits update_proseco exactly once, at the release; moves and
\* presses emit none, nor does a release without a move since the press or
\* with the flag off.  A gesture has panned or rotated exactly when a move
\* to another position followed its press: the press clears both flags and
\* only such a move sets one.
C7_UpdateProsecoOncePerGesture ==
    [][/\ IsHandler(log', "mouseReleaseEvent") =>
             IF log'[1].flag /\ (v_moving \/ v_rotating) /\ sf_state.auto_proseco
             THEN Cardinality(UpdateProseco(log')) = 1 /\ v_start' = NoStart
             ELSE UpdateProseco(log') = {}
       /\ IsHandler(log', "mouseMoveEvent") => UpdateProseco(log') = {}
       /\ IsHandler(log', "mousePressEvent") =>
             /\ UpdateProseco(log') = {}
             /\ log'[1].flag => (~v_moving' /\ ~v_rotating')
       /\ ((v_moving' \/ v_rotating') /\ ~(v_moving \/ v_rotating)) =>
             (IsHandler(log', "mouseMoveEvent") /\ v_start # NoStart /\ v_start' # v_start)
       /\ (IsHandler(log', "mouseMoveEvent") /\ v_start # NoStart /\ v_start' # v_start) =>
             (v_moving' \/ v_rotating')]_vars

\* C7 witness: a drag in a mode with auto_proseco was released and asked
\* for a new catalog
C7_Witness ==
    /\ IsHandler(log, "mouseReleaseEvent")
    /\ UpdateProseco(log) # {}
    /\ v_moving \/ v_rotating
    /\ sf_state.auto_proseco
    /\ v_start = NoStart

\* the visible width and height of a view of px pixels at a scale, at
\* 5 arcsec per pixel, are below 15 degrees: px * 5 / 3600 / scale < 15
Below15(px, scale) == px * scale.d < 10800 * scale.n

\* the view transform was changed in the step taken
Scaled(l) == Entries(l, "apply", "QGraphicsView.scale") # {}

\* a wheel step of dy on a view at scale
C8_Wheel(dy) ==
    LET f == Rat(720 + dy, 720)
        zoomed == [n |-> v_scale.n * f.n, d |-> v_scale.d * f.d]
    IN IF \/ 720 + dy <= 0
          \/ ~Below15(ViewW - 1, zoomed)
          \/ ~Below15(ViewH - 1, zoomed)
       THEN ~Scaled(log') /\ v_scale' = v_scale /\ sf_radius' = sf_radius
       ELSE Scaled(log') /\ v_scale'.n * zoomed.d = v_scale'.d * zoomed.n

\* C8: on a view whose visible field starts below 15 degrees, a wheel zoom
\* whose resulting visible width or height would reach 15 degrees or more
\* is rejected and leaves the view scale and the star field's load radius
\* unchanged (any other zoom is applied), so the visible width and height
\* stay below 15 degrees after every zoom.
C8_ZoomCappedAt15Degrees ==
    [][/\ \A dy \in WheelDeltas :
             (IsHandler(log', "wheelEvent") /\ log'[1].name = ToString(dy)) => C8_Wheel(dy)
       /\ (Below15(ViewW - 1, v_scale) /\ Below15(ViewH - 1, v_scale)) =>
             (Below15(ViewW - 1, v_scale') /\ Below15(ViewH - 1, v_scale'))]_vars

\* C8 witness: a zoom out by one half was rejected on a zoomed-out view
C8_Witness ==
    /\ IsHandler(log, "wheelEvent")
    /\ log[1].name = ToString(-360)
    /\ ~Scaled(log)
    /\ ~Below15(ViewW - 1, [n |-> v_scale.n, d |-> 2 * v_scale.d])
    /\ n_wheel > 1

\* update_stars ran once, past its attitude and epoch check, in the step
\* that led to the state with log l
UpdatedStars(l) == Cardinality(Entries(l, "apply", "update_stars")) = 1

\* the sky position p lies within num/den times the radius r (degrees) of ra
PosInCone(p, ra, r, num, den) ==
    /\ (p - ra) * r.d * den <= PosPerDeg * r.n * num
    /\ (ra - p) * r.d * den <= PosPerDeg * r.n * num

\* the cell c, the positions c*CellWidth up to (c+1)*CellWidth, meets the
\* cone of num/den times the radius r around ra
CellMeetsCone(c, ra, r, num, den) ==
    /\ (c * CellWidth - ra) * r.d * den <= PosPerDeg * r.n * num
    /\ (ra - (c + 1) * CellWidth) * r.d * den < PosPerDeg * r.n * num

\* C9 (as stated): after every update_stars that runs with attitude A, an
\* epoch and load radius R, every resident star's sky position lies within
\* 1.5*R of A.
C9_StarsWithinUnloadCone ==
    (UpdatedStars(log) /\ sf_attitude # NoneAtt /\ sf_time # None) =>
        \A st \in sf_stars.rows : PosInCone(st.pos, sf_attitude.ra, sf_radius, 3, 2)

\* C9 (amended): after every update_stars that runs with attitude A, an
\* epoch and load radius R, every resident star belongs to a spatial-index
\* cell that meets the cone of radius 1.5*R around A (the star itself may
\* lie outside the cone, by less than the size of a cell).
C9_StarsInCellsOfUnloadCone ==
    (UpdatedStars(log) /\ sf_attitude # NoneAtt /\ sf_time # None) =>
        \A st \in sf_stars.rows :
            /\ CellMeetsCone(st.healpix_idx, sf_attitude.ra, sf_radius, 3, 2)
            /\ st.pos \in (st.healpix_idx * CellWidth)..((st.healpix_idx + 1) * CellWidth - 1)

\* C9 witness: after a pan, update_stars left on the scene a star that is
\* farther than 1.5*R from the attitude
C9_Witness ==
    /\ IsHandler(log, "mouseMoveEvent")
    /\ UpdatedStars(log)
    /\ \E st \in sf_stars.rows : ~PosInCone(st.pos, sf_attitude.ra, sf_radius, 3, 2)

\* the rows of the stars table that belong to cell c
RowsOf(stars, c) == {st \in stars.rows : st.healpix_idx = c}

\* C10: update_stars applies load/unload hysteresis per cell: after the
\* call every cell with stars that meets the load cone of radius R around
\* the attitude is resident; a cell resident before that still meets the
\* cone of radius 1.5*R stays resident with its stars untouched; a resident
\* cell is evicted only if it lies outside the 1.5*R cone; and a cell
\* becomes resident only if it meets the load cone.
C10_CellHysteresis ==
    [][UpdatedStars(log') =>
          /\ \A c \in Cells :
                (CellMeetsCone(c, sf_attitude'.ra, sf_radius', 1, 1)
                    /\ \E st \in AgascStars : st.healpix_idx = c) => c \in sf_healpix'
          /\ \A c \in sf_healpix :
                CellMeetsCone(c, sf_attitude'.ra, sf_radius', 3, 2) =>
                    (c \in sf_healpix' /\ RowsOf(sf_stars', c) = RowsOf(sf_stars, c))
          /\ \A c \in sf_healpix \ sf_healpix' :
                ~CellMeetsCone(c, sf_attitude'.ra, sf_radius', 3, 2)
          /\ \A c \in sf_healpix' \ sf_healpix :
                CellMeetsCone(c, sf_attitude'.ra, sf_radius', 1, 1)
          /\ sf_healpix' = {st.healpix_idx : st \in sf_stars'.rows}]_vars

\* C10 witness: update_stars ran at a later epoch and kept a cell that is
\* outside the load cone and inside the unload cone, with the rows it had
C10_Witness ==
    /\ UpdatedStars(log)
    /\ \E c \in sf_healpix :
          /\ ~CellMeetsCone(c, sf_attitude.ra, sf_radius, 1, 1)
          /\ CellMeetsCone(c, sf_attitude.ra, sf_radius, 3, 2)
          /\ \E st \in RowsOf(sf_stars, c) : st.epoch # sf_time

\* set_visibility ran, with stars on the scene, in the step that led to the
\* state with log l
SetVisibilityRan(l) == Entries(l, "apply", "set_visibility") # {}

\* the visible radius of the view, degrees: 1.5 * (side / 2) * 5 / 3600,
\* side the larger side of the visible scene rectangle
VisibleRadius == [n |-> 75 * (Max(ViewW, ViewH) - 1) * v_scale.d, d |-> 72000 * v_scale.n]

\* r < k degrees
RadiusBelow(r, k) == r.n < k * r.d

\* the largest magnitude displayed at visible radius r, in 1/100
MagThreshold(r) ==
    CASE RadiusBelow(r, 2) -> 1400
      [] ~RadiusBelow(r, 2) /\ RadiusBelow(r, 4) -> 1100
      [] ~RadiusBelow(r, 4) /\ RadiusBelow(r, 6) -> 1030
      [] ~RadiusBelow(r, 6) /\ RadiusBelow(r, 8) -> 900
      [] ~RadiusBelow(r, 8) /\ RadiusBelow(r, 10) -> 950
      [] ~RadiusBelow(r, 10) /\ RadiusBelow(r, 11) -> 800
      [] ~RadiusBelow(r, 11) /\ RadiusBelow(r, 15) -> 700
      [] ~RadiusBelow(r, 15) -> 300

\* C11: set_visibility shows a star iff its angular distance from the
\* attitude is at most the visible radius r and its magnitude is at most the
\* threshold for r (14 for r<2, 11 for 2<=r<4, 10.3 for 4<=r<6, 9 for
\* 6<=r<8, 9.5 for 8<=r<10, 8 for 10<=r<11, 7 for 11<=r<15, 3 for r>=15);
\* every other resident star is hidden.
C11_StarShownIffNearAndBright ==
    /\ SetVisibilityRan(log) =>
          \A st \in sf_stars.rows :
              st.id \in sf_items <=>
                  /\ PosInCone(st.pos, sf_attitude.ra, VisibleRadius, 1, 1)
                  /\ st.mag <= MagThreshold(VisibleRadius)
    /\ \A k \in 0..40 :
          Mags[Digitize([n |-> k, d |-> 2]) + 1] = MagThreshold([n |-> k, d |-> 2])

\* C11 witness: at a visible radius between 4 and 6 degrees a star of
\* magnitude 10.5 inside the radius is hidden and one of 8.5 is shown
C11_Witness ==
    /\ SetVisibilityRan(log)
    /\ ~RadiusBelow(VisibleRadius, 4) /\ RadiusBelow(VisibleRadius, 6)
    /\ \E st \in sf_stars.rows :
          /\ st.mag = 1050 /\ st.id \notin sf_items
          /\ PosInCone(st.pos, sf_attitude.ra, VisibleRadius, 1, 1)
    /\ \E st \in sf_stars.rows : st.mag = 850 /\ st.id \in sf_items

\* the external calls made in the step taken, and those that raised
PlannerCalls == Entries(log', "call", "get_aca_catalog")
ReviewCalls == Entries(log', "call", "run_aca_review")
FailedCalls == {i \in PlannerCalls \cup ReviewCalls : log'[i].name # "ok"}

\* C12: while ProsecoData holds a non-empty parameter set, the reads of the
\* proseco accessor made after a set_parameters/reset call get_aca_catalog at
\* most once in all, whatever that call's outcome, and each read gives what
\* the read before it gave.
C12_PlannerCalledAtMostOnce ==
    [][(IsHandler(log', "proseco") /\ pd_parameters # EmptyDict) =>
           /\ n_planner' <= 1
           /\ pd_out.proseco # NoRet => pd_out'.proseco = pd_out.proseco]_vars

\* C13: a value given by a read of the proseco or the sparkles accessor is
\* the external call's result for the parameter set ProsecoData holds at the
\* time of the read.
C13_ReadIsForHeldParameters ==
    [][/\ (IsHandler(log', "proseco") /\ pd_out'.proseco.kind = "catalog")
              => pd_out'.proseco.for = pd_parameters'
       /\ (IsHandler(log', "sparkles") /\ pd_out'.sparkles.kind = "report")
              => pd_out'.sparkles.for = pd_parameters']_vars

\* the read of the step taken: the accessor read and what it gave
ReadOf(l, out) ==
    IF IsHandler(l, "sparkles") THEN out.sparkles ELSE out.proseco
IsRead(l) == IsHandler(l, "proseco") \/ IsHandler(l, "sparkles")

\* the message of the summarized error names the call that failed
NamesFailedCall(ret, l) ==
    \A i \in DOMAIN l : (l[i].ev = "call" /\ l[i].name # "ok") =>
        ret.msg = (IF l[i].who = "get_aca_catalog" THEN "ProsecoData failed calling proseco"
                   ELSE "ProsecoData failed calling sparkles")

Escaped(l) == {i \in DOMAIN l : l[i].ev = "escape"}
ReportedErrors(l) == {i \in DOMAIN l : l[i].ev = "error"}

\* the editor text is not the text of a parameter set: invalid JSON, JSON
\* that is not an object, or an object without a required key
BadText(text) ==
    \/ text.kind # "object"
    \/ \E k \in {"date", "att", "detector"} : text.obj[k] = Absent

\* C16: no exception leaves JsonEditor.save, whatever the editor text; for
\* invalid JSON, JSON that is not an object and an object without one of the
\* keys date, att, detector, save reports an error, keeps the held
\* parameters and does not emit params_changed.
C16_SaveNeverRaises ==
    [][IsHandler(log', "save") =>
           /\ Escaped(log') = {}
           /\ BadText(ed_text) =>
                  /\ ReportedErrors(log') # {}
                  /\ ed_parameters' = ed_parameters
                  /\ Entries(log', "emit", "params_changed") = {}]_vars

\* C18: save on the text that display_text wrote for the held parameters
\* (unedited) leaves the held parameters equal to what they were and emits
\* no params_changed.
C18_SaveOfDisplayedTextChangesNothing ==
    [][(IsHandler(log', "save") /\ ed_text = Dumps(ed_parameters)) =>
           /\ ed_parameters' = ed_parameters
           /\ Entries(log', "emit", "params_changed") = {}]_vars

\* the entries of the file that are for the identifier n, whatever the
\* representation of their key
EntriesFor(file, n) == {i \in DOMAIN file : file[i].key.n = n}

\* C17 (as stated): called with an identifier, get_parameters_from_yoshi and
\* get_parameters_from_pickle return the parameters of an entry of the file
\* for that identifier if there is one, whether its key is an int, a float
\* or a str, and raise AperollException if there is none (an empty file
\* included); no other entry is used.
C17_EntryFoundWhateverTheKey ==
    f_out # NoOut =>
        IF EntriesFor(f_file, f_out.obsid) # {}
        THEN f_out.kind = "parameters" /\ f_out.entry \in EntriesFor(f_file, f_out.obsid)
        ELSE f_out.kind = "AperollException"

\* the step is a find_attitude run in which the solver returned no solution
NoSolutionRun(l) ==
    /\ Len(l) > 0
    /\ l[1].ev = "handler"
    /\ l[1].who \in {"_find_attitude", "find_attitude"}
    /\ l[1].name = "none"

\* find_attitude reported a NoSolutionError, and only that
NoSolutionReported(l) ==
    /\ \E i \in 1..Len(l) : l[i].ev = "error" /\ l[i].name = "NoSolutionError"
    /\ \A i \in 1..Len(l) : l[i].ev = "error" => l[i].name = "NoSolutionError"
    /\ \A i \in 1..Len(l) : l[i].ev # "escape"
    /\ \A i \in 1..Len(l) : ~(l[i].ev = "emit" /\ l[i].who = "found_attitude")

\* C15 (as stated): when the solver returns no solution, a NoSolutionError is
\* reported, found_attitude is not emitted and nothing is mutated: the
\* latest-solution attitude widget, the catalog review text, the tracking
\* catalog table and the centroid table are as before the call.
C15_NoSolutionMutatesNothing ==
    [][NoSolutionRun(log') =>
          /\ NoSolutionReported(log')
          /\ aw' = aw
          /\ review_text' = review_text
          /\ cat_table' = cat_table
          /\ fa_centroids' = fa_centroids]_vars

\* C15 (amended): when the solver returns no solution, a NoSolutionError is
\* reported and found_attitude is not emitted; the centroid table, the stored
\* latest-solution attitude, the view and onboard attitudes, the attitude
\* source, the star field and the star plot's catalog are as before the call;
\* the display of the latest-solution attitude and the catalog review text
\* are cleared, and the tracking catalog table is cleared when the run was
\* started through TelemetryView._find_attitude.
C15_NoSolutionClearsDisplaysOnly ==
    [][NoSolutionRun(log') =>
          /\ NoSolutionReported(log')
          /\ fa_centroids' = fa_centroids
          /\ aw' = [aw EXCEPT !["solution"].shown = NoneAtt]
          /\ review_text' = ""
          /\ cat_table' = IF log'[1].who = "_find_attitude" THEN NoCatalog ELSE cat_table
          /\ sp_catalog' = sp_catalog
          /\ source' = source
          /\ sf_attitude' = sf_attitude
          /\ sf_stars' = sf_stars
          /\ sf_state' = sf_state]_vars

\* C15 witness: a run with no solution, started through TelemetryView, after
\* a catalog was reviewed and shown and a solution was displayed, with
\* enabled centroids
C15_Witness ==
    /\ NoSolutionRun(log)
    /\ log[1].who = "_find_attitude"
    /\ NoSolutionReported(log)
    /\ aw["solution"].attitude # NoneAtt
    /\ aw["solution"].shown = NoneAtt
    /\ sp_catalog # NoCatalog
    /\ cat_table = NoCatalog
    /\ fa_centroids.enable # {}

\* the calls made on the second StarField object in the last handler: the
\* positions of the log at which one is made
SecondCalls(l) == {i \in 1..Len(l) : l[i].ev = "call" /\ l[i].who = "second"}

\* C19: the latch of StarField.set_attitude and StarField.set_state is scoped
\* to the object: a call on the second StarField object, made while a call of
\* the same operation is in progress on the first object only, is executed
\* and not dropped.
C19_LatchIsPerInstance ==
    \A i \in SecondCalls(log) : i < Len(log) /\ log[i + 1].ev # "drop"

\* the positions of the log at which shift_scene or rotate_scene is entered
ScenePans(l) ==
    {i \in 1..Len(l) : l[i].ev = "apply" /\ l[i].who \in {"shift_scene", "rotate_scene"}}

\* the loaded stars, the resident cells and the star items are as before
StarsKept ==
    /\ sf_stars' = sf_stars
    /\ sf_healpix' = sf_healpix
    /\ sf_items' = sf_items
    /\ sf_pos' = sf_pos
    /\ Entries(log', "apply", "update_stars") = {}

\* with no attitude, shift_scene and rotate_scene return at once
PansDoNothing ==
    (sf_attitude = NoneAtt /\ ScenePans(log') # {}) =>
        /\ ScenePans(log') = {Len(log')}
        /\ sf_attitude' = NoneAtt
        /\ sf_radius' = sf_radius
        /\ aw' = aw

\* C20 (as stated): with no attitude or no epoch, update_stars, with or
\* without a radius, changes nothing: resident cells, loaded stars and load
\* radius keep their values; with no attitude, shift_scene and rotate_scene
\* change nothing and emit nothing.
C20_UnsetFieldKeepsEverything ==
    [][/\ (sf_attitude' = NoneAtt \/ sf_time' = None) =>
              StarsKept /\ sf_radius' = sf_radius
       /\ PansDoNothing]_vars

\* C20 (amended): with no attitude or no epoch, update_stars keeps the
\* resident cells and the loaded stars; it keeps the load radius when called
\* without a radius and stores the radius it is given; with no attitude,
\* shift_scene and rotate_scene change nothing and emit nothing.
C20_UnsetFieldKeepsStars ==
    [][/\ (sf_attitude' = NoneAtt \/ sf_time' = None) =>
              /\ StarsKept
              /\ sf_radius' = IF Scaled(log') THEN ViewRadius(v_scale') ELSE sf_radius
       /\ PansDoNothing]_vars

\* C20 witness: the wheel was turned over a star field with an epoch and no
\* attitude: update_stars stored the view's radius and loaded nothing
C20_Witness ==
    /\ sf_attitude = NoneAtt
    /\ sf_time # None
    /\ Scaled(log)
    /\ log[1].who = "wheelEvent"
    /\ sf_radius = ViewRadius(v_scale)
    /\ sf_radius # NewStarField.radius
    /\ sf_stars = NoStars

\* the value_changed emissions of the last handler
ValueChanged(l) == {i \in 1..Len(l) : l[i].ev = "emit" /\ l[i].who = "value_changed"}

\* the last handler is one that checks the value
LeChecks(l) ==
    /\ Len(l) > 0
    /\ l[1].ev = "handler"
    /\ \/ l[1].who = "setText"
       \/ l[1].who = "focusOutEvent"
       \/ l[1].who = "keyPressEvent" /\ l[1].name = "Return"

\* the text the check of the last handler saw (setText has set it)
TextChecked(l) == IF l[1].who = "setText" THEN l[1].name ELSE le.text

C22_PanAndOppositePanRestoreAttitude ==
    (pan.back /\ pan.undo = <<>>) => pan.att = pan.start

\* the step is a call of a guarded method from outside any guarded call
DirectCall(l) ==
    /\ Len(l) > 1
    /\ l[1].ev = "handler"
    /\ l[1].who \in {"StarField.set_attitude", "StarField.set_state"}

\* the decorated function raises for the arguments of the call
RaisesFor(e) ==
    \/ e.who = "StarField.set_attitude" /\ e.att = BadAtt
    \/ e.who = "StarField.set_state" /\ e.name \notin StateNames

\* C23: the single_entry latch is held only while a guarded call executes:
\* a call made from outside any guarded call is executed, not dropped; when
\* it has returned or raised, the latches are free; an exception of the
\* guarded function leaves the wrapper; only nested calls are dropped.
C23_LatchFreeAfterReturnAndRaise ==
    [][DirectCall(log') =>
          /\ log'[2].ev = "call" /\ log'[2].who = log'[1].who
          /\ ~busy'.set_attitude /\ ~busy'.set_state
          /\ RaisesFor(log'[1]) <=>
                 (log'[Len(log')].ev = "escape" /\ log'[Len(log')].who = log'[1].who)
          /\ \A i \in 1..Len(log') : log'[i].ev = "drop" => i > 2]_vars

\* C23 witness: a guarded call raised (an unknown mode name) after the mode
\* had been switched: the latches are free
C23_Witness ==
    /\ DirectCall(log)
    /\ RaisesFor(log[1])
    /\ log[Len(log)].ev = "escape"
    /\ sf_state.name = "Proseco"
    /\ sf_attitude = Quat1
    /\ ~busy.set_state /\ ~busy.set_attitude

\* C24: the named mode definitions of the StarField are never modified:
\* after any sequence of mode switches, overlay toggles, auto-proseco
\* toggles, attitude-source changes and drags each definition has its
\* initial value.
C24_DefinitionsKeepInitialValue ==
    sf_states = COMMON_STATES

\* C24 witness: in the mode Proseco, entered from the menu, the active state
\* differs from the definition in three fields
C24_Witness ==
    /\ sf_state.name = "Proseco"
    /\ sf_state.enable_catalog # COMMON_STATES["Proseco"].enable_catalog
    /\ sf_state.auto_proseco # COMMON_STATES["Proseco"].auto_proseco
    /\ sf_state.onboard_attitude_slot # COMMON_STATES["Proseco"].onboard_attitude_slot

\* C28: in TelemetryView, after every completed operation the attitude source
\* is "Telemetry" exactly when the star field's onboard_attitude_slot is
\* "attitude".
C28_SourceIsTelemetryIffSlotIsAttitude ==
    (source = "Telemetry") <=> (sf_state.onboard_attitude_slot = "attitude")

\* the number of times x is in the sequence q
Occurrences(q, x) == Cardinality({i \in DOMAIN q : q[i] = x})

\* the id lists agree with the last value passed for every star and type
ListsFollowFlags(i) ==
    \A st \in StarIds, ty \in IdTypes :
        /\ Occurrences(i.lists[IncludeKey(ty)], st) = (IF i.included[st][ty] = "True" THEN 1 ELSE 0)
        /\ Occurrences(i.lists[ExcludeKey(ty)], st) = (IF i.included[st][ty] = "False" THEN 1 ELSE 0)

\* C25: after any sequence of include_star calls from the default
\* parameters, every star is at most once in each list and in at most one of
\* the include and the exclude list of a type: in the include list exactly
\* when the last call for it passed True, in the exclude list exactly when
\* it passed False, in neither when it passed None; a call leaves the lists
\* of the other type unchanged.
C25_IdListsFollowLastCall ==
    [][/\ ListsFollowFlags(ids')
       /\ \A ty \in IdTypes \ {ids'.call.type} :
              /\ ids'.lists[IncludeKey(ty)] = ids.lists[IncludeKey(ty)]
              /\ ids'.lists[ExcludeKey(ty)] = ids.lists[ExcludeKey(ty)]]_vars

\* C25 witness: star 1 was excluded and is now included as an acquisition
\* star, after star 2; star 2 is excluded as a guide star
C25_Witness ==
    /\ ids.call = [star |-> 1, type |-> "acq", include |-> "True"]
    /\ ids.lists["include_ids_acq"] = <<2, 1>>
    /\ ids.lists["exclude_ids_acq"] = <<>>
    /\ ids.lists["exclude_ids_guide"] = <<2>>

\* C29: set_centroids called with a slot column that differs from the
\* table's slots is rejected without changing the table: the stored rows and
\* enable flags are as before the call and still match what is displayed.
C29_RejectedCentroidsChangeNothing ==
    [][(log'[1].who = "CentroidTable.set_centroids" /\ ~log'[1].flag) =>
          /\ ct'.table = ct.table
          /\ ct'.table = ct'.shown]_vars

\* C30: every params_changed emission of the editor (from save,
\* set_parameters and set_value) carries the parameter set the editor holds
\* at the time of the emission.
C30_EmissionCarriesHeldParameters ==
    [][(\E i \in DOMAIN log' : log'[i] = Emits("params_changed")) =>
          sent' = ed_parameters']_vars

\* C27: in ProsecoView, one user edit of the attitude in the attitude widget
\* (one attitude_changed emission) leads to at most one invocation of the
\* external planner, in every mode.
C27_OnePlannerCallPerAttitudeEdit ==
    [][IsHandler(log', "attitude_changed") => Cardinality(PlannerCalls) <= 1]_vars

\* a toggle's calls have all been made
CascadeOver == tvs.stack = <<>>

\* the cascade a toggle starts always ends
CascadeEnds == []<>CascadeOver

\* C26: toggling the enable flag of a slot in the find-attitude centroid
\* table, in the tracking catalog table or in the star plot starts a finite
\* cascade of slot_enabled/slot_included signals, and when it ends the three
\* widgets hold the same enable value for that slot.
C26_ToggleEndsWithWidgetsAgreeing ==
    (CascadeOver /\ tvs.toggle # NoToggle) =>
        LET slot == tvs.toggle.slot
        IN /\ tvs.fa[slot] = tvs.cw[slot]
           /\ tvs.fa[slot] = ~tvs.fov[slot]
           /\ tvs.fa[slot] = ~tvs.alt[slot]

====
